---------------------------- MODULE Spec2Model ----------------------------
(***************************************************************************)
(* A model of the Azul rules engine (src/src/azul.rs): the tile sets, the  *)
(* wall and its scoring, the players' staging rows, round-end processing,  *)
(* the deal and the move generation `children`; and of the search and the  *)
(* driver loop (src/src/main.rs).                                          *)
(*                                                                         *)
(* Indices are 0-based as in the source: rows and columns are 0..4, the    *)
(* factory list is a function on 0..n-1 wrapped in a TLA+ sequence whose   *)
(* element k+1 is the source's factories[k].                               *)
(***************************************************************************)
EXTENDS Integers, Sequences, FiniteSets, TLC

(***************************************************************************)
(* Bounds of the exploration (not program constants).                      *)
(***************************************************************************)
\* Drafting moves explored from the initial deal.
MaxMoves == 5
\* The random sources explored are numbered 0..MaxSeed.
MaxSeed == 0

(***************************************************************************)
(* Program constants.                                                      *)
(***************************************************************************)
\* main: State::new(2)
NumPlayers == 2
\* State::new: 20 tiles of each colour
TilesPerColour == 20
\* State::deal: let n = 5
NumFactories == 5
\* State::deal: self.bag.draw(rng, 4)
FactorySize == 4
\* struct Wall { rows: [[bool; 5]; 5] } and Player.rows: [Option<..>; 5]
WallSize == 5
\* State::self_check: n != 100
TotalTiles == 100

(***************************************************************************)
(* enum Tile, const TILES                                                  *)
(***************************************************************************)
TILES == <<"BLACK", "WHITE", "AZUL", "YELLOW", "RED">>

Tile == {TILES[i] : i \in 1..Len(TILES)}

Idx == 0..(WallSize - 1)

(***************************************************************************)
(* struct TileSet: one counter per colour.                                 *)
(***************************************************************************)
TileSet_new == [t \in Tile |-> 0]

\* TileSet::len
TileSet_len(ts) ==
    ts["BLACK"] + ts["WHITE"] + ts["AZUL"] + ts["YELLOW"] + ts["RED"]

\* Variant of TileSet::drain that leaves one tile behind: C11 fails with it.
drain_leaving_one(ts, tile) ==
    [tileset |-> [ts EXCEPT ![tile] = IF @ > 1 THEN 1 ELSE 0], count |-> ts[tile]]

\* TileSet::drain: zero one colour, return the prior count.
drain(ts, tile) ==
    [tileset |-> [ts EXCEPT ![tile] = 0], count |-> ts[tile]]

\* TileSet::push
push(ts, tile) == [ts EXCEPT ![tile] = @ + 1]

\* TileSet::extend
extend(ts, other) == [t \in Tile |-> ts[t] + other[t]]

\* usize::saturating_sub
saturating_sub(a, b) == IF a >= b THEN a - b ELSE 0

\* `let x = v; F(x)`: F applied to the value of v, v evaluated once.
Bind(v, F(_)) == CHOOSE r \in {F(x) : x \in {v}} : TRUE

(***************************************************************************)
(* The random source.  A source is a record [val, pos]: the raw value its  *)
(* samples return and the number of samples taken from it so far.          *)
(* WeightedIndex::sample maps a uniform value below the total weight to    *)
(* the index whose cumulative weight range holds it.                       *)
(***************************************************************************)
SeedSpacing(seed) == 16 + 64 * seed

Rngs == {[val |-> SeedSpacing(s), pos |-> 0] : s \in 0..MaxSeed}

rng_next(rng) == [rng EXCEPT !.pos = @ + 1]

\* Variant of the sample that takes any of the five colours with equal
\* weight: C33 fails with it.
weighted_index_uniform(ts, rng) == (rng.val % Len(TILES)) + 1

\* WeightedIndex::new(&weights).unwrap() + sample: the first index whose
\* cumulative weight exceeds u, for u = raw value reduced below the total.
weighted_index(ts, rng) ==
    LET u == rng.val % TileSet_len(ts)
        c1 == ts[TILES[1]]
        c2 == c1 + ts[TILES[2]]
        c3 == c2 + ts[TILES[3]]
        c4 == c3 + ts[TILES[4]]
    IN IF u < c1 THEN 1
       ELSE IF u < c2 THEN 2
       ELSE IF u < c3 THEN 3
       ELSE IF u < c4 THEN 4
       ELSE 5

\* TileSet::draw_one.  WeightedIndex::new fails (and unwrap panics) when
\* every weight is zero.
draw_one(ts, rng) ==
    IF TileSet_len(ts) = 0
    THEN [tileset |-> ts, tile |-> "BLACK", rng |-> rng, panic |-> TRUE]
    ELSE LET tile == TILES[weighted_index(ts, rng)]
         IN [tileset |-> [ts EXCEPT ![tile] = saturating_sub(@, 1)],
             tile |-> tile, rng |-> rng_next(rng), panic |-> FALSE]

\* TileSet::draw: count sequential draws, collected into a new TileSet.
RECURSIVE draw_loop(_, _, _, _)
draw_loop(ts, rng, count, acc) ==
    IF count = 0
    THEN [source |-> ts, tileset |-> acc, rng |-> rng, panic |-> FALSE]
    ELSE Bind(draw_one(ts, rng), LAMBDA d :
           IF d.panic
           THEN [source |-> ts, tileset |-> acc, rng |-> rng, panic |-> TRUE]
           ELSE draw_loop(d.tileset, d.rng, count - 1, push(acc, d.tile)))

draw(ts, rng, count) == draw_loop(ts, rng, count, TileSet_new)

(***************************************************************************)
(* struct Wall, const WALL                                                 *)
(***************************************************************************)
\* Variant of the table with two cells of the second row exchanged: C34
\* fails with it.
WALL_ROWS_exchanged ==
    << <<"AZUL", "YELLOW", "RED", "BLACK", "WHITE">>,
       <<"AZUL", "WHITE", "YELLOW", "RED", "BLACK">>,
       <<"BLACK", "WHITE", "AZUL", "YELLOW", "RED">>,
       <<"RED", "BLACK", "WHITE", "AZUL", "YELLOW">>,
       <<"YELLOW", "RED", "BLACK", "WHITE", "AZUL">> >>

WALL_ROWS ==
    << <<"AZUL", "YELLOW", "RED", "BLACK", "WHITE">>,
       <<"WHITE", "AZUL", "YELLOW", "RED", "BLACK">>,
       <<"BLACK", "WHITE", "AZUL", "YELLOW", "RED">>,
       <<"RED", "BLACK", "WHITE", "AZUL", "YELLOW">>,
       <<"YELLOW", "RED", "BLACK", "WHITE", "AZUL">> >>

WALL(row_index, colum_index) == WALL_ROWS[row_index + 1][colum_index + 1]

Wall_new == [rows |-> [y \in Idx |-> [x \in Idx |-> FALSE]]]

\* Wall::len
Wall_len(wall) == Cardinality({<<y, x>> \in Idx \X Idx : wall.rows[y][x]})

\* WALL[row_index].iter().position(|cell| cell == tile).unwrap()
position(row_index, tile) ==
    CHOOSE x \in Idx : /\ WALL(row_index, x) = tile
                       /\ \A x2 \in Idx : WALL(row_index, x2) = tile => x <= x2

\* Wall::has_tile
has_tile(wall, row_index, tile) == wall.rows[row_index][position(row_index, tile)]

\* Wall::count: occupied cells from (y, x) in direction (dx, dy), the start
\* cell included.  A step below 0 wraps to a huge usize in the source and
\* leaves 0..5 just as the negative index does here.
RECURSIVE count(_, _, _, _, _)
count(wall, y, x, dx, dy) ==
    IF y \in Idx /\ x \in Idx /\ wall.rows[y][x]
    THEN 1 + count(wall, y + dy, x + dx, dx, dy)
    ELSE 0

\* Wall::points_at: the four counts, each of which includes the cell itself.
points_sum(wall, colum_index, row_index) ==
    count(wall, row_index, colum_index, 1, 0)
      + count(wall, row_index, colum_index, -1, 0)
      + count(wall, row_index, colum_index, 0, -1)
      + count(wall, row_index, colum_index, 0, 1)

\* Variant of Wall::points_at that takes the new cell to be counted twice
\* too often, not thrice: C12 fails with it.
points_at_less_two(wall, colum_index, row_index) ==
    points_sum(wall, colum_index, row_index) - 2

points_at(wall, colum_index, row_index) == points_sum(wall, colum_index, row_index) - 3

\* Variant of Wall::bonus_points_at with the two bonuses exchanged: C13
\* fails with it.
bonus_points_at_exchanged(wall, colum_index, row_index) ==
    (IF \A column \in Idx : wall.rows[row_index][column] THEN 7 ELSE 0)
      + (IF \A row \in Idx : wall.rows[row][colum_index] THEN 2 ELSE 0)

\* Wall::bonus_points_at
bonus_points_at(wall, colum_index, row_index) ==
    (IF \A column \in Idx : wall.rows[row_index][column] THEN 2 ELSE 0)
      + (IF \A row \in Idx : wall.rows[row][colum_index] THEN 7 ELSE 0)

\* Variant of Wall::add_tile that sets the cell one column before: C36
\* fails with it.
add_tile_column_before(wall, row_index, tile) ==
    LET colum_index == (position(row_index, tile) + WallSize - 1) % WallSize
        w == [rows |-> [wall.rows EXCEPT ![row_index][colum_index] = TRUE]]
    IN [wall |-> w,
        points |-> points_at(w, colum_index, row_index)
                     + bonus_points_at(w, colum_index, row_index),
        panic |-> wall.rows[row_index][colum_index]]

\* Wall::add_tile.  panic: the assertion "Tile was already assigned!".
add_tile(wall, row_index, tile) ==
    LET colum_index == position(row_index, tile)
        w == [rows |-> [wall.rows EXCEPT ![row_index][colum_index] = TRUE]]
    IN [wall |-> w,
        points |-> points_at(w, colum_index, row_index)
                     + bonus_points_at(w, colum_index, row_index),
        panic |-> wall.rows[row_index][colum_index]]

\* discard_points
RECURSIVE discard_points(_)
discard_points(n) ==
    IF n = 0 THEN 0
    ELSE discard_points(n - 1)
           + (IF n - 1 < 5 THEN <<1, 1, 2, 2, 2>>[n] ELSE 3)

(***************************************************************************)
(* struct Player.  A staging row is None (the empty tuple) or              *)
(* Some((tile, count)) (the pair <<tile, count>>).                         *)
(***************************************************************************)
None == <<>>

Some(tile, n) == <<tile, n>>

Player_new ==
    [rows |-> [i \in Idx |-> None],
     points |-> 0,
     wall |-> Wall_new,
     discard |-> TileSet_new]

\* Variant of maybe_place that does not look at the wall: C3 fails with it.
maybe_place_ignoring_wall(player, tile, n, row_index) ==
    LET row_size == row_index + 1
        row == player.rows[row_index]
    IN IF row # None
       THEN IF row[1] # tile
            THEN [player |-> player, accepted |-> FALSE]
            ELSE LET space_left == row_size - row[2]
                     discard_count == saturating_sub(n, space_left)
                 IN [player |->
                       [player EXCEPT
                          !.rows[row_index] = Some(tile, row[2] + (n - discard_count)),
                          !.discard[tile] = @ + discard_count],
                     accepted |-> TRUE]
       ELSE LET space_left == row_size
                discard_count == saturating_sub(n, space_left)
            IN [player |->
                  [player EXCEPT
                     !.rows[row_index] = Some(tile, n - discard_count),
                     !.discard[tile] = @ + discard_count],
                accepted |-> TRUE]

\* Variant of maybe_place that puts every tile in the row and none in the
\* discard: C4 fails with it.
maybe_place_overfilling(player, tile, n, row_index) ==
    IF has_tile(player.wall, row_index, tile)
    THEN [player |-> player, accepted |-> FALSE]
    ELSE LET row == player.rows[row_index]
         IN IF row # None
            THEN IF row[1] # tile
                 THEN [player |-> player, accepted |-> FALSE]
                 ELSE [player |-> [player EXCEPT !.rows[row_index] = Some(tile, row[2] + n)],
                       accepted |-> TRUE]
            ELSE [player |-> [player EXCEPT !.rows[row_index] = Some(tile, n)],
                  accepted |-> TRUE]

\* Variant of maybe_place that refuses a row already full of the colour:
\* C5 fails with it.
maybe_place_refusing_full(player, tile, n, row_index) ==
    IF has_tile(player.wall, row_index, tile)
    THEN [player |-> player, accepted |-> FALSE]
    ELSE LET row_size == row_index + 1
             row == player.rows[row_index]
         IN IF row # None
            THEN IF row[1] # tile \/ row[2] = row_size
                 THEN [player |-> player, accepted |-> FALSE]
                 ELSE LET space_left == row_size - row[2]
                          discard_count == saturating_sub(n, space_left)
                      IN [player |->
                            [player EXCEPT
                               !.rows[row_index] = Some(tile, row[2] + (n - discard_count)),
                               !.discard[tile] = @ + discard_count],
                          accepted |-> TRUE]
            ELSE LET space_left == row_size
                     discard_count == saturating_sub(n, space_left)
                 IN [player |->
                       [player EXCEPT
                          !.rows[row_index] = Some(tile, n - discard_count),
                          !.discard[tile] = @ + discard_count],
                     accepted |-> TRUE]

\* Variant of maybe_place that starts a row anew when it holds another
\* colour: C29 fails with it.
maybe_place_recolouring(player, tile, n, row_index) ==
    IF has_tile(player.wall, row_index, tile)
    THEN [player |-> player, accepted |-> FALSE]
    ELSE LET row_size == row_index + 1
             row == player.rows[row_index]
         IN IF row # None /\ row[1] = tile
            THEN LET space_left == row_size - row[2]
                     discard_count == saturating_sub(n, space_left)
                 IN [player |->
                       [player EXCEPT
                          !.rows[row_index] = Some(tile, row[2] + (n - discard_count)),
                          !.discard[tile] = @ + discard_count],
                     accepted |-> TRUE]
            ELSE LET space_left == row_size
                     discard_count == saturating_sub(n, space_left)
                 IN [player |->
                       [player EXCEPT
                          !.rows[row_index] = Some(tile, n - discard_count),
                          !.discard[tile] = @ + discard_count],
                     accepted |-> TRUE]

\* Player::maybe_place.  Returns the player after the call and the bool.
maybe_place(player, tile, n, row_index) ==
    IF has_tile(player.wall, row_index, tile)
    THEN [player |-> player, accepted |-> FALSE]
    ELSE LET row_size == row_index + 1
             row == player.rows[row_index]
         IN IF row # None
            THEN IF row[1] # tile
                 THEN [player |-> player, accepted |-> FALSE]
                 ELSE LET space_left == row_size - row[2]
                          discard_count == saturating_sub(n, space_left)
                      IN [player |->
                            [player EXCEPT
                               !.rows[row_index] = Some(tile, row[2] + (n - discard_count)),
                               !.discard[tile] = @ + discard_count],
                          accepted |-> TRUE]
            ELSE LET space_left == row_size
                     discard_count == saturating_sub(n, space_left)
                 IN [player |->
                       [player EXCEPT
                          !.rows[row_index] = Some(tile, n - discard_count),
                          !.discard[tile] = @ + discard_count],
                     accepted |-> TRUE]

\* Player::prepare_next_round, the loop over the rows from row_index on.
\* acc is [player, tray, panic].
RECURSIVE commit_rows(_, _)

\* Variant of the row loop that commits every started row, full or not:
\* C28 fails with it.
commit_rows_started(acc, row_index) ==
    IF row_index >= WallSize \/ acc.panic
    THEN acc
    ELSE LET row == acc.player.rows[row_index]
         IN IF row # None
            THEN Bind(add_tile(acc.player.wall, row_index, row[1]), LAMBDA added :
                   commit_rows(
                     [player |-> [acc.player EXCEPT
                                    !.wall = added.wall,
                                    !.points = @ + added.points,
                                    !.rows[row_index] = None],
                      tray |-> [acc.tray EXCEPT ![row[1]] = @ + (row[2] - 1)],
                      panic |-> added.panic],
                     row_index + 1))
            ELSE commit_rows(acc, row_index + 1)

commit_rows(acc, row_index) ==
    IF row_index >= WallSize \/ acc.panic
    THEN acc
    ELSE LET row_size == row_index + 1
             row == acc.player.rows[row_index]
         IN IF row # None /\ row[2] = row_size
            THEN Bind(add_tile(acc.player.wall, row_index, row[1]), LAMBDA added :
                   commit_rows(
                     [player |-> [acc.player EXCEPT
                                    !.wall = added.wall,
                                    !.points = @ + added.points,
                                    !.rows[row_index] = None],
                      tray |-> [acc.tray EXCEPT ![row[1]] = @ + (row[2] - 1)],
                      panic |-> added.panic],
                     row_index + 1))
            ELSE commit_rows(acc, row_index + 1)

\* Variant of Player::prepare_next_round that subtracts the discard penalty
\* before the rows are scored: C14 fails with it.
Player_prepare_next_round_penalty_first(player, tray) ==
    Bind(commit_rows([player |-> player, tray |-> tray, panic |-> FALSE], 0), LAMBDA c :
      [player |-> [c.player EXCEPT
                     !.points = saturating_sub(player.points,
                                               discard_points(TileSet_len(c.player.discard)))
                                  + (c.player.points - player.points),
                     !.discard = TileSet_new],
       tray |-> extend(c.tray, c.player.discard),
       panic |-> c.panic])

\* Variant of Player::prepare_next_round that clears the discard without
\* moving it to the tray: C1 fails with it.
Player_prepare_next_round_losing_discard(player, tray) ==
    Bind(commit_rows([player |-> player, tray |-> tray, panic |-> FALSE], 0), LAMBDA c :
      [player |-> [c.player EXCEPT
                     !.points = saturating_sub(@, discard_points(TileSet_len(c.player.discard))),
                     !.discard = TileSet_new],
       tray |-> c.tray,
       panic |-> c.panic])

\* Player::prepare_next_round: commit the full rows, subtract the discard
\* penalty (saturating), move the discard into the tray.
Player_prepare_next_round(player, tray) ==
    Bind(commit_rows([player |-> player, tray |-> tray, panic |-> FALSE], 0), LAMBDA c :
      [player |-> [c.player EXCEPT
                     !.points = saturating_sub(@, discard_points(TileSet_len(c.player.discard))),
                     !.discard = TileSet_new],
       tray |-> extend(c.tray, c.player.discard),
       panic |-> c.panic])

\* Player::tile_count
RECURSIVE rows_sum(_, _)
rows_sum(rows, k) ==
    IF k = 0 THEN 0
    ELSE rows_sum(rows, k - 1) + (IF rows[k - 1] = None THEN 0 ELSE rows[k - 1][2])

Player_tile_count(player) ==
    rows_sum(player.rows, WallSize) + Wall_len(player.wall) + TileSet_len(player.discard)

(***************************************************************************)
(* struct State.  players is a function on 0..NumPlayers-1.                *)
(***************************************************************************)
PlayerIdx(s) == DOMAIN s.players

\* State::new
State_new(players) ==
    [bag |-> [t \in Tile |-> TilesPerColour],
     factories |-> <<>>,
     center |-> TileSet_new,
     tray |-> TileSet_new,
     players |-> [p \in 0..(players - 1) |-> Player_new],
     moves |-> 0]

RECURSIVE factories_sum(_, _)
factories_sum(factories, k) ==
    IF k = 0 THEN 0 ELSE factories_sum(factories, k - 1) + TileSet_len(factories[k])

RECURSIVE players_sum(_, _)
players_sum(players, k) ==
    IF k = 0 THEN 0 ELSE players_sum(players, k - 1) + Player_tile_count(players[k - 1])

\* State::tile_count
State_tile_count(s) ==
    TileSet_len(s.bag)
      + factories_sum(s.factories, Len(s.factories))
      + TileSet_len(s.center)
      + TileSet_len(s.tray)
      + players_sum(s.players, Cardinality(PlayerIdx(s)))

\* State::deal, the loop dealing the factories.  acc is [state, rng, panic].
RECURSIVE deal_loop(_, _)
deal_loop(acc, k) ==
    IF k = 0 \/ acc.panic
    THEN acc
    ELSE Bind(draw(acc.state.bag, acc.rng, FactorySize), LAMBDA d :
           IF d.panic
           THEN [acc EXCEPT !.panic = TRUE]
           ELSE deal_loop(
                  [state |-> [acc.state EXCEPT
                                !.bag = d.source,
                                !.factories = Append(@, d.tileset)],
                   rng |-> d.rng,
                   panic |-> FALSE],
                  k - 1))

\* Variant of State::deal that never refills the bag: C21 fails with it.
deal_without_refill(s, rng) ==
    deal_loop([state |-> s, rng |-> rng, panic |-> FALSE], NumFactories)

\* Variant of State::deal that also refills a bag of exactly 20 tiles (<=):
\* C26 fails with it.
deal_refilling_at_twenty(s, rng) ==
    LET n == NumFactories
        refilled == IF TileSet_len(s.bag) <= FactorySize * n
                    THEN [s EXCEPT !.bag = extend(s.bag, s.tray), !.tray = TileSet_new]
                    ELSE s
    IN deal_loop([state |-> refilled, rng |-> rng, panic |-> FALSE], n)

\* Variant of State::deal with the factory count of the board game, two
\* per player and one: C27 fails with it.
deal_by_players(s, rng) ==
    LET n == 2 * Cardinality(DOMAIN s.players) + 1
        refilled == IF TileSet_len(s.bag) < FactorySize * n
                    THEN [s EXCEPT !.bag = extend(s.bag, s.tray), !.tray = TileSet_new]
                    ELSE s
    IN deal_loop([state |-> refilled, rng |-> rng, panic |-> FALSE], n)

\* State::deal
deal(s, rng) ==
    LET n == NumFactories
        refilled == IF TileSet_len(s.bag) < FactorySize * n
                    THEN [s EXCEPT !.bag = extend(s.bag, s.tray), !.tray = TileSet_new]
                    ELSE s
    IN deal_loop([state |-> refilled, rng |-> rng, panic |-> FALSE], n)

\* Variant of State::is_empty that does not look at the center: C7 fails
\* with it.
is_empty_ignoring_center(s) ==
    factories_sum(s.factories, Len(s.factories)) = 0

\* State::is_empty
is_empty(s) ==
    factories_sum(s.factories, Len(s.factories)) + TileSet_len(s.center) = 0

\* State::prepare_next_round step 1: every player in turn, sharing the tray.
\* acc is [state, panic].
RECURSIVE score_players(_, _)
score_players(acc, p) ==
    IF p >= Cardinality(PlayerIdx(acc.state)) \/ acc.panic
    THEN acc
    ELSE Bind(Player_prepare_next_round(acc.state.players[p], acc.state.tray), LAMBDA r :
           score_players(
             [state |-> [acc.state EXCEPT !.players[p] = r.player, !.tray = r.tray],
              panic |-> r.panic],
             p + 1))

\* Variant of State::prepare_next_round that scores the players and does
\* not deal: C2 fails with it.
State_prepare_next_round_without_deal(s, rng) ==
    IF is_empty(s)
    THEN Bind(score_players([state |-> s, panic |-> FALSE], 0), LAMBDA scored :
           IF scored.panic
           THEN [state |-> scored.state, rng |-> rng, panic |-> "assigned"]
           ELSE [state |-> [scored.state EXCEPT !.moves = @ + 1],
                 rng |-> rng, panic |-> "none"])
    ELSE [state |-> [s EXCEPT !.moves = @ + 1], rng |-> rng, panic |-> "none"]

\* Variant of State::prepare_next_round that counts the move only when the
\* round goes on: C8 fails with it.
State_prepare_next_round_uncounted(s, rng) ==
    IF is_empty(s)
    THEN Bind(score_players([state |-> s, panic |-> FALSE], 0), LAMBDA scored :
           IF scored.panic
           THEN [state |-> scored.state, rng |-> rng, panic |-> "assigned"]
           ELSE Bind(deal(scored.state, rng), LAMBDA dealt :
                  IF dealt.panic
                  THEN [state |-> dealt.state, rng |-> dealt.rng, panic |-> "empty"]
                  ELSE [state |-> dealt.state, rng |-> dealt.rng, panic |-> "none"]))
    ELSE [state |-> [s EXCEPT !.moves = @ + 1], rng |-> rng, panic |-> "none"]

\* Variant of State::prepare_next_round that deals after every move: C25
\* fails with it.
State_prepare_next_round_dealing_always(s, rng) ==
    IF is_empty(s)
    THEN Bind(score_players([state |-> s, panic |-> FALSE], 0), LAMBDA scored :
           IF scored.panic
           THEN [state |-> scored.state, rng |-> rng, panic |-> "assigned"]
           ELSE Bind(deal(scored.state, rng), LAMBDA dealt :
                  IF dealt.panic
                  THEN [state |-> dealt.state, rng |-> dealt.rng, panic |-> "empty"]
                  ELSE [state |-> [dealt.state EXCEPT !.moves = @ + 1],
                        rng |-> dealt.rng, panic |-> "none"]))
    ELSE Bind(deal(s, rng), LAMBDA dealt :
           IF dealt.panic
           THEN [state |-> dealt.state, rng |-> dealt.rng, panic |-> "empty"]
           ELSE [state |-> [dealt.state EXCEPT !.moves = @ + 1],
                 rng |-> dealt.rng, panic |-> "none"])

\* Variant of State::prepare_next_round that scores the players after every
\* move: C38 fails with it.
State_prepare_next_round_scoring_always(s, rng) ==
    Bind(score_players([state |-> s, panic |-> FALSE], 0), LAMBDA scored :
      IF scored.panic
      THEN [state |-> scored.state, rng |-> rng, panic |-> "assigned"]
      ELSE IF is_empty(s)
      THEN Bind(deal(scored.state, rng), LAMBDA dealt :
             IF dealt.panic
             THEN [state |-> dealt.state, rng |-> dealt.rng, panic |-> "empty"]
             ELSE [state |-> [dealt.state EXCEPT !.moves = @ + 1],
                   rng |-> dealt.rng, panic |-> "none"])
      ELSE [state |-> [scored.state EXCEPT !.moves = @ + 1], rng |-> rng, panic |-> "none"])

\* State::prepare_next_round.  Returns [state, rng, panic].
State_prepare_next_round(s, rng) ==
    IF is_empty(s)
    THEN Bind(score_players([state |-> s, panic |-> FALSE], 0), LAMBDA scored :
           IF scored.panic
           THEN [state |-> scored.state, rng |-> rng, panic |-> "assigned"]
           ELSE Bind(deal(scored.state, rng), LAMBDA dealt :
                  IF dealt.panic
                  THEN [state |-> dealt.state, rng |-> dealt.rng, panic |-> "empty"]
                  ELSE [state |-> [dealt.state EXCEPT !.moves = @ + 1],
                        rng |-> dealt.rng, panic |-> "none"]))
    ELSE [state |-> [s EXCEPT !.moves = @ + 1], rng |-> rng, panic |-> "none"]

\* Variant of State::is_game_over that looks for a full column: C15 fails
\* with it.
is_game_over_by_column(s) ==
    \E p \in PlayerIdx(s) : \E x \in Idx : \A y \in Idx : s.players[p].wall.rows[y][x]

\* Variant of State::is_game_over that looks at the wall of the player who
\* moved last only: C39 fails with it.
is_game_over_of_last_mover(s) ==
    \E y \in Idx : \A x \in Idx :
       s.players[(s.moves + Cardinality(PlayerIdx(s)) - 1) % Cardinality(PlayerIdx(s))].wall.rows[y][x]

\* State::is_game_over
is_game_over(s) ==
    \E p \in PlayerIdx(s) : \E y \in Idx : \A x \in Idx : s.players[p].wall.rows[y][x]

\* GameState::current_player
current_player(s) == s.moves % Cardinality(PlayerIdx(s))

Max(S) == CHOOSE m \in S : \A x \in S : x <= m

\* GameState::winner: None (the empty tuple) or Some(max points).
winner(s) ==
    IF is_game_over(s)
    THEN <<Max({s.players[p].points : p \in PlayerIdx(s)})>>
    ELSE None

(***************************************************************************)
(* Move generation.  The source returns a Vec<State>; here every element   *)
(* is a record whose field `state` is that State and whose other fields    *)
(* record the loop variables at the moment the element was pushed: the     *)
(* origin (a factory index, or Center), the colour and count taken, the    *)
(* target row (or forced discard), and `staged`, the state just before     *)
(* State::prepare_next_round ran on it.  A panic inside a child aborts     *)
(* the whole call: the accumulator [children, rng, panic] carries it out.  *)
(***************************************************************************)
Center == -1

\* State::place_all, the closure of the flat_map for one row.
place_row(s, origin, tile, n, acc, row) ==
    LET player_index == current_player(s)
    IN Bind(maybe_place(s.players[player_index], tile, n, row), LAMBDA placed :
         IF placed.accepted
         THEN Bind([s EXCEPT !.players[player_index] = placed.player], LAMBDA staged :
                Bind(State_prepare_next_round(staged, acc.rng), LAMBDA r :
                  [children |-> Append(acc.children,
                                  [state |-> r.state, staged |-> staged, origin |-> origin,
                                   tile |-> tile, count |-> n, row |-> row, forced |-> FALSE]),
                   rng |-> r.rng,
                   panic |-> r.panic]))
         ELSE acc)

RECURSIVE place_rows(_, _, _, _, _, _)
place_rows(s, origin, tile, n, acc, row) ==
    IF row >= WallSize \/ acc.panic # "none"
    THEN acc
    ELSE place_rows(s, origin, tile, n, place_row(s, origin, tile, n, acc, row), row + 1)

\* Variant of State::place_all whose forced discard takes one tile: C6
\* fails with it.
place_all_discarding_one(s, origin, tile, n, rng) ==
    LET player_index == current_player(s)
    IN Bind(place_rows(s, origin, tile, n,
                       [children |-> <<>>, rng |-> rng, panic |-> "none"], 0), LAMBDA states :
         IF states.panic = "none" /\ states.children = <<>>
         THEN Bind([s EXCEPT !.players[player_index].discard[tile] = @ + 1], LAMBDA staged :
                Bind(State_prepare_next_round(staged, rng), LAMBDA r :
                  [children |-> <<[state |-> r.state, staged |-> staged, origin |-> origin,
                                   tile |-> tile, count |-> n, row |-> 0, forced |-> TRUE]>>,
                   rng |-> r.rng,
                   panic |-> r.panic]))
         ELSE states)

\* State::place_all: one state per accepting row, or the forced discard.
place_all(s, origin, tile, n, rng) ==
    LET player_index == current_player(s)
    IN Bind(place_rows(s, origin, tile, n,
                       [children |-> <<>>, rng |-> rng, panic |-> "none"], 0), LAMBDA states :
         IF states.panic = "none" /\ states.children = <<>>
         THEN Bind([s EXCEPT !.players[player_index].discard[tile] = @ + n], LAMBDA staged :
                Bind(State_prepare_next_round(staged, rng), LAMBDA r :
                  [children |-> <<[state |-> r.state, staged |-> staged, origin |-> origin,
                                   tile |-> tile, count |-> n, row |-> 0, forced |-> TRUE]>>,
                   rng |-> r.rng,
                   panic |-> r.panic]))
         ELSE states)

\* Variant of Vec::remove that drops the last element: C10 fails with it.
remove_last(seq, index) ==
    [k \in 1..(Len(seq) - 1) |-> seq[k]]

\* Variant of Vec::remove that leaves an empty tile set in place of the
\* element: C37 fails with it.
remove_leaving_empty(seq, index) ==
    [k \in 1..Len(seq) |-> IF k = index + 1 THEN TileSet_new ELSE seq[k]]

\* Vec::remove(index), index 0-based.
remove(seq, index) ==
    [k \in 1..(Len(seq) - 1) |-> IF k <= index THEN seq[k] ELSE seq[k + 1]]

\* children.extend(place_all(..)) with the random source threaded through.
extend_children(acc, s, origin, tile, n) ==
    Bind(place_all(s, origin, tile, n, acc.rng), LAMBDA placed :
      [children |-> acc.children \o placed.children,
       rng |-> placed.rng,
       panic |-> placed.panic])

\* GameState::children, the inner loop `for tile in TILES` of one factory:
\* removed is the state without the factory, factory the removed factory.
RECURSIVE factory_tiles(_, _, _, _, _)
factory_tiles(removed, factory, factory_index, acc, k) ==
    IF k > Len(TILES) \/ acc.panic # "none"
    THEN acc
    ELSE LET drained == drain(factory, TILES[k])
         IN factory_tiles(removed, factory, factory_index,
              IF drained.count > 0
              THEN extend_children(acc,
                     [removed EXCEPT !.center = extend(@, drained.tileset)],
                     factory_index, TILES[k], drained.count)
              ELSE acc,
              k + 1)

\* GameState::children, the loop over the factories.
RECURSIVE factory_loop(_, _, _)
factory_loop(s, acc, factory_index) ==
    IF factory_index >= Len(s.factories) \/ acc.panic # "none"
    THEN acc
    ELSE factory_loop(s,
           factory_tiles([s EXCEPT !.factories = remove(@, factory_index)],
                         s.factories[factory_index + 1], factory_index, acc, 1),
           factory_index + 1)

\* GameState::children, the loop over the colours of the center.
RECURSIVE center_loop(_, _, _)
center_loop(s, acc, k) ==
    IF k > Len(TILES) \/ acc.panic # "none"
    THEN acc
    ELSE LET drained == drain(s.center, TILES[k])
         IN center_loop(s,
              IF drained.count > 0
              THEN extend_children(acc, [s EXCEPT !.center = drained.tileset],
                                   Center, TILES[k], drained.count)
              ELSE acc,
              k + 1)

\* Variant of GameState::children that visits the center first: C9 fails
\* with it.
children_center_first(s, rng) ==
    factory_loop(s,
                 center_loop(s, [children |-> <<>>, rng |-> rng, panic |-> "none"], 1),
                 0)

\* GameState::children
children(s, rng) ==
    center_loop(s,
                factory_loop(s, [children |-> <<>>, rng |-> rng, panic |-> "none"], 0),
                1)

\* State::self_check: TRUE when it panics.
self_check(s) == State_tile_count(s) # TotalTiles

(***************************************************************************)
(* The search (src/src/main.rs): minmax with alpha-beta pruning over       *)
(* children, and search, which turns the index minmax returns into a       *)
(* successor.  An evaluator is named by a string.  Values are i32.         *)
(***************************************************************************)
I32_MAX == 2147483647

I32_MIN == -I32_MAX - 1

\* The evaluators: Fish as it stands, whose heuristic leaves the list as it
\* is, and an evaluator whose heuristic reorders the list as the trait
\* allows ("may re-order (but not modify) states").
Evaluations == {"Fish", "Reordering"}

\* Evaluation::evaulate (State and Fish): the points of the given player.
evaulate(evaluation, s, player) == s.players[player].points

\* Evaluation::heuristic.  Fish: the body is commented out, the list stays.
\* Reordering: the commented lines of Fish, sort_by_key on the cache and
\* reverse; nothing ever calls update, the cache is empty, the stable sort
\* keeps the order and reverse turns the list round.
heuristic(evaluation, states) ==
    IF evaluation = "Fish"
    THEN states
    ELSE [k \in 1..Len(states) |-> states[Len(states) + 1 - k]]

RECURSIVE minmax(_, _, _, _, _, _, _)
RECURSIVE maximize(_, _, _, _, _, _, _)
RECURSIVE minimize(_, _, _, _, _, _, _)

\* One iteration of a loop of minmax, as recorded: the recursive call for
\* the child at index got the window of best and returned r.
Visit(index, best, r) ==
    [index |-> index, alpha |-> best.alpha, beta |-> best.beta, value |-> r.value]

\* Variant of minmax whose leaf test is depth <= 1: C16 fails with it.
minmax_shallow(s, evaluation, rng, player, depth, alpha, beta) ==
    IF depth <= 1
    THEN [index |-> None, value |-> evaulate(evaluation, s, current_player(s)),
          rng |-> rng, panic |-> "none", visited |-> <<>>]
    ELSE IF winner(s) # None
    THEN [index |-> None,
          value |-> IF winner(s)[1] = player THEN I32_MAX ELSE I32_MIN,
          rng |-> rng, panic |-> "none", visited |-> <<>>]
    ELSE Bind(children(s, rng), LAMBDA c :
           IF c.panic # "none"
           THEN [index |-> None, value |-> 0, rng |-> c.rng, panic |-> c.panic,
                 visited |-> <<>>]
           ELSE Bind(IF current_player(s) = player
                     THEN maximize(heuristic(evaluation, c.children), evaluation, player, depth,
                                   [index |-> None, value |-> I32_MIN, rng |-> c.rng,
                                    panic |-> "none", alpha |-> alpha, beta |-> beta,
                                    cutoff |-> FALSE, visited |-> <<>>],
                                   0, Len(c.children))
                     ELSE minimize(heuristic(evaluation, c.children), evaluation, player, depth,
                                   [index |-> None, value |-> I32_MAX, rng |-> c.rng,
                                    panic |-> "none", alpha |-> alpha, beta |-> beta,
                                    cutoff |-> FALSE, visited |-> <<>>],
                                   0, Len(c.children)),
                     LAMBDA best :
                       [index |-> best.index, value |-> best.value,
                        rng |-> best.rng, panic |-> best.panic,
                        visited |-> best.visited]))

\* Variant of minmax that tests for the end of the game before the depth:
\* C23 fails with it.
minmax_end_first(s, evaluation, rng, player, depth, alpha, beta) ==
    IF winner(s) # None
    THEN [index |-> None,
          value |-> IF winner(s)[1] = player THEN I32_MAX ELSE I32_MIN,
          rng |-> rng, panic |-> "none", visited |-> <<>>]
    ELSE IF depth = 0
    THEN [index |-> None, value |-> evaulate(evaluation, s, current_player(s)),
          rng |-> rng, panic |-> "none", visited |-> <<>>]
    ELSE Bind(children(s, rng), LAMBDA c :
           IF c.panic # "none"
           THEN [index |-> None, value |-> 0, rng |-> c.rng, panic |-> c.panic,
                 visited |-> <<>>]
           ELSE Bind(IF current_player(s) = player
                     THEN maximize(heuristic(evaluation, c.children), evaluation, player, depth,
                                   [index |-> None, value |-> I32_MIN, rng |-> c.rng,
                                    panic |-> "none", alpha |-> alpha, beta |-> beta,
                                    cutoff |-> FALSE, visited |-> <<>>],
                                   0, Len(c.children))
                     ELSE minimize(heuristic(evaluation, c.children), evaluation, player, depth,
                                   [index |-> None, value |-> I32_MAX, rng |-> c.rng,
                                    panic |-> "none", alpha |-> alpha, beta |-> beta,
                                    cutoff |-> FALSE, visited |-> <<>>],
                                   0, Len(c.children)),
                     LAMBDA best :
                       [index |-> best.index, value |-> best.value,
                        rng |-> best.rng, panic |-> best.panic,
                        visited |-> best.visited]))

\* minmax: returns [index, value, rng, panic, visited], index None or
\* <<i>> for Some(i), i 0-based; visited lists the iterations of the loop
\* over the children in order, each with the index of the child, the window
\* (alpha, beta) passed to the recursive call and the value it returned.
minmax(s, evaluation, rng, player, depth, alpha, beta) ==
    IF depth = 0
    THEN [index |-> None, value |-> evaulate(evaluation, s, current_player(s)),
          rng |-> rng, panic |-> "none", visited |-> <<>>]
    ELSE IF winner(s) # None
    THEN [index |-> None,
          value |-> IF winner(s)[1] = player THEN I32_MAX ELSE I32_MIN,
          rng |-> rng, panic |-> "none", visited |-> <<>>]
    ELSE Bind(children(s, rng), LAMBDA c :
           IF c.panic # "none"
           THEN [index |-> None, value |-> 0, rng |-> c.rng, panic |-> c.panic,
                 visited |-> <<>>]
           ELSE Bind(IF current_player(s) = player
                     THEN maximize(heuristic(evaluation, c.children), evaluation, player, depth,
                                   [index |-> None, value |-> I32_MIN, rng |-> c.rng,
                                    panic |-> "none", alpha |-> alpha, beta |-> beta,
                                    cutoff |-> FALSE, visited |-> <<>>],
                                   0, Len(c.children))
                     ELSE minimize(heuristic(evaluation, c.children), evaluation, player, depth,
                                   [index |-> None, value |-> I32_MAX, rng |-> c.rng,
                                    panic |-> "none", alpha |-> alpha, beta |-> beta,
                                    cutoff |-> FALSE, visited |-> <<>>],
                                   0, Len(c.children)),
                     LAMBDA best :
                       [index |-> best.index, value |-> best.value,
                        rng |-> best.rng, panic |-> best.panic,
                        visited |-> best.visited]))

\* Variant of the maximizing loop's body that keeps the first of equal
\* values (>): C22 fails with it.
maximize_step_keeping_first(states, evaluation, player, depth, best, index) ==
    Bind(minmax(states[index + 1].state, evaluation, best.rng, player, depth - 1,
                best.alpha, best.beta), LAMBDA r :
      IF r.panic # "none"
      THEN [best EXCEPT !.rng = r.rng, !.panic = r.panic]
      ELSE Bind(IF r.value > best.value
                THEN [best EXCEPT !.value = r.value, !.index = <<index>>, !.rng = r.rng,
                                  !.visited = Append(@, Visit(index, best, r))]
                ELSE [best EXCEPT !.rng = r.rng,
                                  !.visited = Append(@, Visit(index, best, r))], LAMBDA b :
             IF b.value > b.beta
             THEN [b EXCEPT !.cutoff = TRUE]
             ELSE [b EXCEPT !.alpha = IF @ >= b.value THEN @ ELSE b.value]))

\* Variant of the maximizing loop's body that breaks when the best value
\* has reached beta (>=): C35 fails with it.
maximize_step_cutting_at_bound(states, evaluation, player, depth, best, index) ==
    Bind(minmax(states[index + 1].state, evaluation, best.rng, player, depth - 1,
                best.alpha, best.beta), LAMBDA r :
      IF r.panic # "none"
      THEN [best EXCEPT !.rng = r.rng, !.panic = r.panic]
      ELSE Bind(IF r.value >= best.value
                THEN [best EXCEPT !.value = r.value, !.index = <<index>>, !.rng = r.rng,
                                  !.visited = Append(@, Visit(index, best, r))]
                ELSE [best EXCEPT !.rng = r.rng,
                                  !.visited = Append(@, Visit(index, best, r))], LAMBDA b :
             IF b.value >= b.beta
             THEN [b EXCEPT !.cutoff = TRUE]
             ELSE [b EXCEPT !.alpha = IF @ >= b.value THEN @ ELSE b.value]))

\* minmax, the body of the maximizing player's loop for element index.
\* best is [index, value, rng, panic, alpha, beta, cutoff, visited]:
\* best_index, best_value, the random source, the window so far, whether
\* the loop has left by its break, and the iterations so far.
maximize_step(states, evaluation, player, depth, best, index) ==
    Bind(minmax(states[index + 1].state, evaluation, best.rng, player, depth - 1,
                best.alpha, best.beta), LAMBDA r :
      IF r.panic # "none"
      THEN [best EXCEPT !.rng = r.rng, !.panic = r.panic]
      ELSE Bind(IF r.value >= best.value
                THEN [best EXCEPT !.value = r.value, !.index = <<index>>, !.rng = r.rng,
                                  !.visited = Append(@, Visit(index, best, r))]
                ELSE [best EXCEPT !.rng = r.rng,
                                  !.visited = Append(@, Visit(index, best, r))], LAMBDA b :
             IF b.value > b.beta
             THEN [b EXCEPT !.cutoff = TRUE]
             ELSE [b EXCEPT !.alpha = IF @ >= b.value THEN @ ELSE b.value]))

\* minmax, the loop of the maximizing player over the elements lo..hi-1 in
\* order (the range is halved to keep the nesting of the evaluation low).
maximize(states, evaluation, player, depth, best, lo, hi) ==
    IF lo >= hi \/ best.panic # "none" \/ best.cutoff
    THEN best
    ELSE IF hi = lo + 1
    THEN maximize_step(states, evaluation, player, depth, best, lo)
    ELSE Bind(maximize(states, evaluation, player, depth, best, lo, (lo + hi) \div 2),
              LAMBDA half :
                maximize(states, evaluation, player, depth, half, (lo + hi) \div 2, hi))

\* Variant of the minimizing loop's body that breaks when the best value
\* has reached alpha (<=): C24 fails with it.
minimize_step_cutting_at_bound(states, evaluation, player, depth, best, index) ==
    Bind(minmax(states[index + 1].state, evaluation, best.rng, player, depth - 1,
                best.alpha, best.beta), LAMBDA r :
      IF r.panic # "none"
      THEN [best EXCEPT !.rng = r.rng, !.panic = r.panic]
      ELSE Bind(IF r.value <= best.value
                THEN [best EXCEPT !.value = r.value, !.index = <<index>>, !.rng = r.rng,
                                  !.visited = Append(@, Visit(index, best, r))]
                ELSE [best EXCEPT !.rng = r.rng,
                                  !.visited = Append(@, Visit(index, best, r))], LAMBDA b :
             IF b.value <= b.alpha
             THEN [b EXCEPT !.cutoff = TRUE]
             ELSE [b EXCEPT !.beta = IF @ <= b.value THEN @ ELSE b.value]))

\* minmax, the body of the minimizing player's loop for element index.
minimize_step(states, evaluation, player, depth, best, index) ==
    Bind(minmax(states[index + 1].state, evaluation, best.rng, player, depth - 1,
                best.alpha, best.beta), LAMBDA r :
      IF r.panic # "none"
      THEN [best EXCEPT !.rng = r.rng, !.panic = r.panic]
      ELSE Bind(IF r.value <= best.value
                THEN [best EXCEPT !.value = r.value, !.index = <<index>>, !.rng = r.rng,
                                  !.visited = Append(@, Visit(index, best, r))]
                ELSE [best EXCEPT !.rng = r.rng,
                                  !.visited = Append(@, Visit(index, best, r))], LAMBDA b :
             IF b.value < b.alpha
             THEN [b EXCEPT !.cutoff = TRUE]
             ELSE [b EXCEPT !.beta = IF @ <= b.value THEN @ ELSE b.value]))

\* minmax, the loop of the minimizing player over the elements lo..hi-1.
minimize(states, evaluation, player, depth, best, lo, hi) ==
    IF lo >= hi \/ best.panic # "none" \/ best.cutoff
    THEN best
    ELSE IF hi = lo + 1
    THEN minimize_step(states, evaluation, player, depth, best, lo)
    ELSE Bind(minimize(states, evaluation, player, depth, best, lo, (lo + hi) \div 2),
              LAMBDA half :
                minimize(states, evaluation, player, depth, half, (lo + hi) \div 2, hi))

\* search: returns [result, root, rng, panic]; result is None or <<state>>
\* for Some(state), root the index the root call of minmax returned.  The
\* list children returns the second time is indexed as it comes.
search(s, evaluation, rng, depth) ==
    Bind(minmax(s, evaluation, rng, current_player(s), depth, I32_MIN, I32_MAX), LAMBDA m :
      IF m.panic # "none"
      THEN [result |-> None, root |-> m.index, rng |-> m.rng, panic |-> m.panic]
      ELSE IF m.index # None
      THEN Bind(children(s, m.rng), LAMBDA c :
             IF c.panic # "none"
             THEN [result |-> None, root |-> m.index, rng |-> c.rng, panic |-> c.panic]
             ELSE IF m.index[1] >= Len(c.children)
             THEN [result |-> None, root |-> m.index, rng |-> c.rng, panic |-> "index"]
             ELSE [result |-> <<c.children[m.index[1] + 1].state>>, root |-> m.index,
                   rng |-> c.rng, panic |-> "none"])
      ELSE [result |-> None, root |-> m.index, rng |-> m.rng, panic |-> "none"])

\* Variant of random_move that returns the state itself when there is no
\* move: C31 fails with it.
random_move_staying(s, rng, choice) ==
    Bind(children(s, rng), LAMBDA c :
      IF c.panic # "none"
      THEN [result |-> None, rng |-> c.rng, panic |-> c.panic]
      ELSE IF c.children = <<>>
      THEN [result |-> <<s>>, rng |-> c.rng, panic |-> "none"]
      ELSE [result |-> <<c.children[(choice % Len(c.children)) + 1].state>>,
            rng |-> c.rng, panic |-> "none"])

\* random_move: children.choose(rng).unwrap().clone(); choice is the number
\* the random source gives choose.  Returns [result, rng, panic], result
\* <<state>> or None with panic "unwrap" for the unwrap of None.
random_move(s, rng, choice) ==
    Bind(children(s, rng), LAMBDA c :
      IF c.panic # "none"
      THEN [result |-> None, rng |-> c.rng, panic |-> c.panic]
      ELSE IF c.children = <<>>
      THEN [result |-> None, rng |-> c.rng, panic |-> "unwrap"]
      ELSE [result |-> <<c.children[(choice % Len(c.children)) + 1].state>>,
            rng |-> c.rng, panic |-> "none"])

(***************************************************************************)
(* The game as a state machine.  `state` is the driver's current State and *)
(* `pc` its position: before the initial deal, playing, or aborted by a    *)
(* panic (`panic` names it).  A move is the driver's                       *)
(*     let children = state.children(rng); state = children[index]         *)
(* (search and random_move both end this way); `call` is the record of     *)
(* that call: the state it ran on, the index taken and the element of the  *)
(* returned list at that index.  The random source has been advanced by    *)
(* earlier calls, so each step takes any source of Rngs.  The moves continue past  *)
(* a finished game, as children does not look at is_game_over.             *)
(***************************************************************************)
VARIABLES state, pc, panic, call

vars == <<state, pc, panic, call>>

NoCall == [before |-> State_new(NumPlayers), index |-> 0]

Init ==
    /\ state = State_new(NumPlayers)
    /\ pc = "new"
    /\ panic = "none"
    /\ call = NoCall

\* main: state.deal(&mut rng)
Deal ==
    /\ pc = "new"
    /\ \E rng \in Rngs : \E d \in {deal(state, rng)} :
          /\ state' = d.state
          /\ panic' = IF d.panic THEN "empty" ELSE "none"
          /\ pc' = IF d.panic THEN "aborted" ELSE "play"
    /\ call' = call

\* let children = state.children(rng); state = children[index], for any
\* index; a panic inside children aborts the driver, and so does an empty
\* list (random_move: children.choose(rng).unwrap()).
Take(rng, then) ==
    \E c \in {children(state, rng)} :
       IF c.panic # "none" \/ c.children = <<>>
       THEN /\ state' = state
            /\ panic' = IF c.panic # "none" THEN c.panic ELSE "no_move"
            /\ pc' = "aborted"
            /\ call' = [before |-> state, index |-> 0]
       ELSE \E k \in 1..Len(c.children) :
            /\ state' = c.children[k].state
            /\ panic' = "none"
            /\ pc' = then
            /\ call' = [before |-> state, index |-> k, child |-> c.children[k]]

\* One drafting move: the state becomes one of its children.
Move ==
    /\ pc = "play"
    /\ state.moves < MaxMoves
    /\ \E rng \in Rngs : Take(rng, "play")

Next == Deal \/ Move

Spec == Init /\ [][Next]_vars

(***************************************************************************)
(* Properties of the game (specification Spec).                            *)
(***************************************************************************)
\* The player who made the recorded move.
Mover == call.before.moves % NumPlayers

\* The recorded move took the last tiles on offer.
CallCrossed == call.index > 0 /\ is_empty(call.child.staged)

\* Some tile is on offer in s, read off the zones directly.
TilesOnOffer(s) ==
    \/ \E k \in 1..Len(s.factories) : \E t \in Tile : s.factories[k][t] > 0
    \/ \E t \in Tile : s.center[t] > 0

\* C1: in every state reached from State::new(N), the deal and any
\* successors taken from children(), the tiles of bag, factories, center,
\* tray and every player's rows, wall and discard number 100, so that
\* self_check does not panic.
C1_Conservation ==
    /\ State_tile_count(state) = TotalTiles
    /\ ~self_check(state)

\* A round has ended: tiles are on a wall and in the tray, and a new deal
\* was drawn from the bag.
C1_Witness ==
    /\ pc = "play"
    /\ CallCrossed
    /\ \E p \in PlayerIdx(state) : Wall_len(state.players[p].wall) > 0
    /\ TileSet_len(state.tray) > 0

\* No staged row of s holds a colour whose cell in that wall row is set.
NoRowOnSetCell(s) ==
    \A p \in PlayerIdx(s) : \A i \in Idx :
       s.players[p].rows[i] # None
         => \A x \in Idx : WALL(i, x) = s.players[p].rows[i][1] => ~s.players[p].wall.rows[i][x]

\* C4: for every player and every staging row index i in 0..4, a non-empty
\* row holds a fill count c with 1 <= c <= i + 1.
C4_RowCapacity ==
    \A p \in PlayerIdx(state) : \A i \in Idx :
       state.players[p].rows[i] # None
         => /\ 1 <= state.players[p].rows[i][2]
            /\ state.players[p].rows[i][2] <= i + 1

\* A pick of more tiles than the row had room for: the row is full, the
\* rest went to the discard.
C4_Witness ==
    /\ call.index > 0
    /\ ~call.child.forced
    /\ call.child.count > call.child.row + 1
    /\ call.child.staged.players[Mover].rows[call.child.row][2] = call.child.row + 1

\* C8: every state returned by children(s) has moves = s.moves + 1, whether
\* or not a round boundary is crossed, and current_player() = moves mod the
\* number of players, so that the players move in rotation 0, 1, ..., 0:
\* the player after the mover is to move next, and before round-end
\* processing only the mover's board has changed.
C8_TurnOrder ==
    /\ current_player(state) = state.moves % NumPlayers
    /\ call.index > 0 =>
         /\ call.child.state.moves = call.before.moves + 1
         /\ current_player(call.child.state) = (current_player(call.before) + 1) % NumPlayers
         /\ \A p \in PlayerIdx(call.before) :
               p # current_player(call.before)
                 => call.child.staged.players[p] = call.before.players[p]

\* A move across a round boundary, and the next player is to move.
C8_Witness ==
    /\ CallCrossed
    /\ state.moves = call.before.moves + 1
    /\ current_player(state) = (Mover + 1) % NumPlayers

(***************************************************************************)
(* Move generation applied to mid-game positions.  The positions a game    *)
(* reaches within MaxMoves moves have few rows filled and no forced        *)
(* discard, so children is also run once on each of a family of mid-game   *)
(* states: the player to move has any combination of rows that are empty,  *)
(* started or full, a wall with some cells set, and a small offer of       *)
(* factories and center; the bag holds what completes 20 tiles per colour. *)
(***************************************************************************)
\* Moves played before the generated position.
GenMoves == 20
\* Tiles of each colour lying in the tray of a generated position with a
\* well-filled bag.
GenTray == 2

\* The rows of the player to move: row i is empty, holds one BLACK tile,
\* is full of BLACK or is full of WHITE.
GenRow(i) ==
    {None, Some("BLACK", 1), Some("BLACK", i + 1), Some("WHITE", i + 1)}

GenRows == {rows \in [Idx -> UNION {GenRow(i) : i \in Idx}] : \A i \in Idx : rows[i] \in GenRow(i)}

\* A wall on which colour tile is set in the rows of R.
GenWall(tile, R) ==
    [rows |-> [y \in Idx |-> [x \in Idx |-> y \in R /\ WALL(y, x) = tile]]]

GenWalls == {GenWall("BLACK", {}), GenWall("BLACK", {1, 2})}

\* The other player: with a full row, a started row, a discard and a wall
\* cell.
GenOther ==
    {[rows |-> [i \in Idx |-> IF i = 2 THEN Some("AZUL", 3)
                              ELSE IF i = 4 THEN Some("RED", 2) ELSE None],
      points |-> 3,
      wall |-> GenWall("YELLOW", {2}),
      discard |-> [TileSet_new EXCEPT !["RED"] = 1]]}

TS(b, w, a, y, r) ==
    [t \in Tile |-> CASE t = "BLACK" -> b [] t = "WHITE" -> w [] t = "AZUL" -> a
                      [] t = "YELLOW" -> y [] t = "RED" -> r]

\* The tiles on offer: the factory list and the center.
GenOffers ==
    {[factories |-> <<TS(4, 0, 0, 0, 0)>>, center |-> TileSet_new],
     [factories |-> <<TS(2, 1, 1, 0, 0)>>, center |-> TileSet_new],
     [factories |-> <<>>, center |-> TS(3, 0, 0, 0, 0)],
     [factories |-> <<TS(2, 1, 1, 0, 0), TS(0, 4, 0, 0, 0)>>, center |-> TS(1, 0, 2, 0, 0)]}

\* The tray: a few tiles of each colour, or most of them (the bag is then
\* short of a full deal and the deal refills it from the tray).
GenTrays ==
    {[t \in Tile |-> GenTray], [t \in Tile |-> TilesPerColour - GenTray - 2]}

\* Tiles of one colour outside the bag.
RECURSIVE factories_colour(_, _, _)
factories_colour(factories, k, tile) ==
    IF k = 0 THEN 0 ELSE factories_colour(factories, k - 1, tile) + factories[k][tile]

player_colour(player, tile) ==
    rows_sum([i \in Idx |-> IF player.rows[i] # None /\ player.rows[i][1] = tile
                            THEN player.rows[i] ELSE None], WallSize)
      + player.discard[tile]
      + Cardinality({<<y, x>> \in Idx \X Idx : player.wall.rows[y][x] /\ WALL(y, x) = tile})

RECURSIVE players_colour(_, _, _)
players_colour(players, k, tile) ==
    IF k = 0 THEN 0 ELSE players_colour(players, k - 1, tile) + player_colour(players[k - 1], tile)

outside_bag(s, tile) ==
    factories_colour(s.factories, Len(s.factories), tile)
      + s.center[tile] + s.tray[tile]
      + players_colour(s.players, Cardinality(PlayerIdx(s)), tile)

GenState(m, rows, wall, other, offer, tray) ==
    LET mover == [rows |-> rows, points |-> 4, wall |-> wall, discard |-> TileSet_new]
        partial == [bag |-> TileSet_new,
                    factories |-> offer.factories,
                    center |-> offer.center,
                    tray |-> tray,
                    players |-> [p \in 0..(NumPlayers - 1) |->
                                   IF p = m % NumPlayers THEN mover ELSE other],
                    moves |-> m]
    IN [partial EXCEPT !.bag = [t \in Tile |-> TilesPerColour - outside_bag(partial, t)]]

\* A row never holds a colour its wall row already has (the code keeps it so).
GenWellFormed(s) ==
    /\ \A t \in Tile : s.bag[t] >= 0
    /\ \A p \in PlayerIdx(s) : \A i \in Idx :
          s.players[p].rows[i] # None
            => ~s.players[p].wall.rows[i][position(i, s.players[p].rows[i][1])]

\* The positions with moves_before or one more move played.
GenStates(moves_before) ==
    {s \in {GenState(m, rows, wall, other, offer, tray) :
              m \in {moves_before, moves_before + 1}, rows \in GenRows, wall \in GenWalls,
              other \in GenOther, offer \in GenOffers, tray \in GenTrays} :
       GenWellFormed(s)}

\* The positions: the generated ones, and the new game whose first position
\* the deal makes.
InitPick ==
    /\ \/ state \in GenStates(GenMoves) /\ pc = "position"
       \/ state = State_new(NumPlayers) /\ pc = "new"
    /\ panic = "none"
    /\ call = NoCall

\* The player to move is about to pick.
AtPosition == pc \in {"position", "play"}

\* children run on the position, one element taken.
Pick ==
    /\ AtPosition
    /\ \E rng \in Rngs : Take(rng, "picked")

NextPick == Deal \/ Pick

SpecPick == InitPick /\ [][NextPick]_vars

(***************************************************************************)
(* Properties of move generation (specification SpecPick).                 *)
(***************************************************************************)
\* C2: every position, the one the initial deal makes included, has a tile
\* in a factory or the center; so has every state children() returns, the
\* one returned for the last pick of a round included (round-end
\* processing deals again first); and children() returns at least one
\* successor: no call ends in a panic or in an empty list.
C2_MovesExist ==
    /\ AtPosition => TilesOnOffer(state)
    /\ call.index > 0 => TilesOnOffer(call.child.state)
    /\ pc # "aborted"
    /\ panic = "none"

\* No row accepted the last tiles on offer: the only successor is the
\* forced discard, and the state returned is dealt anew.
C2_Witness ==
    /\ CallCrossed
    /\ call.child.forced
    /\ call.index = 1
    /\ Len(state.factories) = NumFactories

\* C3: round-end processing never calls Wall::add_tile on an occupied
\* cell (the assertion "Tile was already assigned!" never fires), and no
\* staged row holds a colour whose cell in that wall row is already set:
\* from a position where no row does, in the state the pick builds, before
\* and after round-end processing.
C3_WallSingleAssignment ==
    /\ panic # "assigned"
    /\ NoRowOnSetCell(state)
    /\ call.index > 0 => NoRowOnSetCell(call.child.staged)

\* The mover took a colour whose cell is set in a row of the wall; the
\* tiles went to another row, and the round end committed a full row.
C3_Witness ==
    /\ CallCrossed
    /\ ~call.child.forced
    /\ \E i \in Idx : has_tile(call.before.players[Mover].wall, i, call.child.tile)
    /\ Wall_len(state.players[Mover].wall) > Wall_len(call.before.players[Mover].wall)

\* The row of the player refuses the colour, as the rules put it.
Refuses(player, tile, row) ==
    \/ \E x \in Idx : WALL(row, x) = tile /\ player.wall.rows[row][x]
    \/ player.rows[row] # None /\ player.rows[row][1] # tile

\* The fill of a staging row.
Fill(player, row) == IF player.rows[row] = None THEN 0 ELSE player.rows[row][2]

\* C5: maybe_place(tile, count, row) returns false if and only if the
\* player's wall has that tile's cell set in that row or the staging row
\* holds another colour; a row full of the same colour is accepted and all
\* the tiles go to the discard.  The children of a position are built on
\* just the accepted rows.
C5_PlacementLegality ==
    /\ AtPosition =>
         \A tile \in Tile : \A row \in Idx : \A n \in 1..(WallSize + 1) :
            \A r \in {maybe_place(state.players[current_player(state)], tile, n, row)} :
               /\ ~r.accepted <=> Refuses(state.players[current_player(state)], tile, row)
               /\ ~r.accepted => r.player = state.players[current_player(state)]
               /\ (r.accepted /\ Fill(state.players[current_player(state)], row) = row + 1)
                    => r.player = [state.players[current_player(state)]
                                     EXCEPT !.discard[tile] = @ + n]
    /\ call.index > 0 =>
         IF call.child.forced
         THEN \A row \in Idx : Refuses(call.before.players[Mover], call.child.tile, row)
         ELSE ~Refuses(call.before.players[Mover], call.child.tile, call.child.row)

\* A pick placed on a row that was already full of the colour.
C5_Witness ==
    /\ call.index > 0
    /\ ~call.child.forced
    /\ call.before.players[Mover].rows[call.child.row]
         = Some(call.child.tile, call.child.row + 1)
    /\ call.child.staged.players[Mover].discard[call.child.tile]
         = call.before.players[Mover].discard[call.child.tile] + call.child.count

Min(a, b) == IF a <= b THEN a ELSE b

\* C6: for every drafted (colour, count) and every child produced for it,
\* before round-end processing the increase of the mover's target row plus
\* the increase of the mover's discard of that colour equals count: the
\* row receives min(count, capacity - previous fill), the discard the
\* rest; in the forced-discard child the discard receives all of count.
C6_DiscardOrFit ==
    call.index > 0 =>
      LET old == call.before.players[Mover]
          new == call.child.staged.players[Mover]
          tile == call.child.tile
          row == call.child.row
      IN IF call.child.forced
         THEN /\ new.discard[tile] = old.discard[tile] + call.child.count
              /\ new.rows = old.rows
         ELSE /\ Fill(new, row) - Fill(old, row)
                   = Min(call.child.count, (row + 1) - Fill(old, row))
              /\ (Fill(new, row) - Fill(old, row)) + (new.discard[tile] - old.discard[tile])
                   = call.child.count
              /\ new.rows[row][1] = tile
              /\ \A i \in Idx \ {row} : new.rows[i] = old.rows[i]

\* A forced discard was taken.
C6_Witness ==
    /\ call.index > 0
    /\ call.child.forced
    /\ call.child.count > 1
    /\ call.child.staged.players[Mover].discard[call.child.tile] >= call.child.count

\* The staging row is full.
FullRow(player, row) == player.rows[row] # None /\ player.rows[row][2] = row + 1

\* The tiles of one colour that the full rows of the player give to the
\* tray: the fill less the one that goes to the wall.
RECURSIVE Surplus(_, _, _)
Surplus(player, tile, row) ==
    IF row < 0 THEN 0
    ELSE Surplus(player, tile, row - 1)
           + (IF FullRow(player, row) /\ player.rows[row][1] = tile THEN row ELSE 0)

RECURSIVE TrayGain(_, _, _)
TrayGain(s, tile, p) ==
    IF p < 0 THEN 0
    ELSE TrayGain(s, tile, p - 1)
           + Surplus(s.players[p], tile, WallSize - 1) + s.players[p].discard[tile]

\* The board of a player after the round end, points left aside.
Committed(player) ==
    [rows |-> [i \in Idx |-> IF FullRow(player, i) THEN None ELSE player.rows[i]],
     wall |-> [rows |-> [y \in Idx |-> [x \in Idx |->
                 \/ player.wall.rows[y][x]
                 \/ FullRow(player, y) /\ WALL(y, x) = player.rows[y][1]]]],
     discard |-> TileSet_new,
     points |-> 0]

\* Every player's full rows committed and cleared, every discard emptied
\* into the tray.
Scored(s) ==
    [s EXCEPT !.players = [p \in PlayerIdx(s) |-> Committed(s.players[p])],
              !.tray = [t \in Tile |-> s.tray[t] + TrayGain(s, t, NumPlayers - 1)]]

Pointless(s) == [s EXCEPT !.players = [p \in PlayerIdx(s) |-> [s.players[p] EXCEPT !.points = 0]]]

\* C7: whenever a pick leaves all factories and the center empty, the
\* child returned has had round-end processing applied in this order:
\* every player's rows with fill = capacity are committed to the wall and
\* cleared, every player's discard is emptied into the tray, and then new
\* 4-tile factories are dealt (from the bag, refilled from that tray when
\* short); when the pick leaves a tile in a factory or the center, none of
\* these steps happen.
C7_RoundEnd ==
    call.index > 0 =>
      IF TilesOnOffer(call.child.staged)
      THEN call.child.state = [call.child.staged EXCEPT !.moves = @ + 1]
      ELSE /\ Len(call.child.state.factories) = NumFactories
           /\ \A k \in 1..NumFactories : TileSet_len(call.child.state.factories[k]) = FactorySize
           /\ \E rng \in Rngs : \E dealt \in {deal(Scored(call.child.staged), rng)} :
                 /\ ~dealt.panic
                 /\ Pointless(call.child.state)
                      = Pointless([dealt.state EXCEPT !.moves = @ + 1])

\* The last tiles were taken while a full row and a discard were waiting,
\* and the bag was short: the deal drew on the tray that had just received
\* them.
C7_Witness ==
    /\ CallCrossed
    /\ \E p \in PlayerIdx(state) : \E i \in Idx : FullRow(call.child.staged.players[p], i)
    /\ TileSet_len(call.child.staged.players[Mover].discard) > 0
    /\ TileSet_len(call.child.staged.bag) < FactorySize * NumFactories
    /\ TileSet_len(state.tray) = 0

\* The place of a child in the enumeration: origin (the factories in
\* ascending order, then the center), colour (in the order of TILES), row.
OriginRank(s, origin) == IF origin = Center THEN Len(s.factories) ELSE origin

ColourRank(tile) == CHOOSE k \in 1..Len(TILES) : TILES[k] = tile

Precedes(s, a, b) ==
    \/ OriginRank(s, a.origin) < OriginRank(s, b.origin)
    \/ /\ a.origin = b.origin
       /\ \/ ColourRank(a.tile) < ColourRank(b.tile)
          \/ a.tile = b.tile /\ ~a.forced /\ ~b.forced /\ a.row < b.row

\* The tiles of a colour at an origin.
CountAt(s, origin, tile) ==
    IF origin = Center THEN s.center[tile] ELSE s.factories[origin + 1][tile]

Origins(s) == {k - 1 : k \in 1..Len(s.factories)} \cup {Center}

\* The moves the rules give the player to move in s.
ExpectedMoves(s) ==
    {[origin |-> o, tile |-> t, row |-> r, forced |-> FALSE] :
       <<o, t, r>> \in {m \in Origins(s) \X Tile \X Idx :
                          /\ CountAt(s, m[1], m[2]) > 0
                          /\ ~Refuses(s.players[current_player(s)], m[2], m[3])}}
    \cup {[origin |-> m[1], tile |-> m[2], row |-> 0, forced |-> TRUE] :
            m \in {m \in Origins(s) \X Tile :
                     /\ CountAt(s, m[1], m[2]) > 0
                     /\ \A r \in Idx : Refuses(s.players[current_player(s)], m[2], r)}}

MoveOf(child) ==
    [origin |-> child.origin, tile |-> child.tile, row |-> child.row, forced |-> child.forced]

\* C9: children(s) contains, for every origin (each factory index in
\* ascending order, then the center) and every colour with count > 0 there
\* (in the order BLACK, WHITE, AZUL, YELLOW, RED), exactly one child per
\* staging row 0..4 of the current player that accepts the colour, in
\* ascending row order, or exactly one forced-discard child if no row
\* accepts; it contains no other states.
C9_Enumeration ==
    /\ AtPosition =>
         \A rng \in Rngs : \A c \in {children(state, rng)} :
            /\ c.panic = "none"
            /\ {MoveOf(c.children[k]) : k \in 1..Len(c.children)} = ExpectedMoves(state)
            /\ \A k \in 1..(Len(c.children) - 1) :
                  Precedes(state, c.children[k], c.children[k + 1])
            /\ \A k \in 1..Len(c.children) :
                  /\ c.children[k].count
                       = CountAt(state, c.children[k].origin, c.children[k].tile)
                  /\ ~c.children[k].forced =>
                       c.children[k].staged.players[current_player(state)]
                          .rows[c.children[k].row][1] = c.children[k].tile
    /\ call.index > 0 => MoveOf(call.child) \in ExpectedMoves(call.before)

\* A forced discard from the center, listed after the children of two
\* factories.
C9_Witness ==
    /\ call.index > 0
    /\ call.child.forced
    /\ call.child.origin = Center
    /\ Len(call.before.factories) = 2
    /\ call.index > 2

\* C10: in a child produced by taking colour c from factory f without
\* crossing a round boundary, factory f is gone from the factory list,
\* every other factory is unchanged, the center has gained exactly the
\* tiles of f that are not of colour c, and the count routed to placement
\* equals the number of c tiles that were in f.
C10_FactoryPick ==
    (call.index > 0 /\ call.child.origin # Center /\ TilesOnOffer(call.child.staged)) =>
      LET f == call.child.origin
          old == call.before
          new == call.child.state
      IN /\ Len(new.factories) = Len(old.factories) - 1
         /\ \A k \in 1..Len(new.factories) :
               new.factories[k] = IF k <= f THEN old.factories[k] ELSE old.factories[k + 1]
         /\ \A t \in Tile :
               new.center[t] = old.center[t]
                                 + (IF t = call.child.tile THEN 0 ELSE old.factories[f + 1][t])
         /\ call.child.count = old.factories[f + 1][call.child.tile]
         /\ call.child.count > 0

\* A pick from the first of two factories that left tiles of other colours
\* to the center.
C10_Witness ==
    /\ call.index > 0
    /\ call.child.origin = 0
    /\ Len(call.before.factories) = 2
    /\ TilesOnOffer(call.child.staged)
    /\ TileSet_len(state.center) > TileSet_len(call.before.center)

\* C11: in a child produced by taking colour c from the center without
\* crossing a round boundary, the center's count of c is 0, its counts of
\* every other colour are unchanged, all factories are unchanged, and the
\* count routed to placement equals the previous center count of c.
C11_CenterPick ==
    (call.index > 0 /\ call.child.origin = Center /\ TilesOnOffer(call.child.staged)) =>
      /\ call.child.state.center[call.child.tile] = 0
      /\ \A t \in Tile \ {call.child.tile} :
            call.child.state.center[t] = call.before.center[t]
      /\ call.child.state.factories = call.before.factories
      /\ call.child.count = call.before.center[call.child.tile]
      /\ call.child.count > 0

\* Several tiles of a colour taken from a center that keeps another colour,
\* with factories still on the table.
C11_Witness ==
    /\ call.index > 0
    /\ call.child.origin = Center
    /\ call.child.count > 1
    /\ TileSet_len(state.center) > 0
    /\ Len(state.factories) = 2

(***************************************************************************)
(* Scoring applied to walls and players.  The walls a game reaches within  *)
(* MaxMoves moves hold a tile or two, so Wall::add_tile is also run, up to *)
(* MaxAdded times, on the wall of the player to move starting from a few   *)
(* walls (empty, nearly complete row and column, nearly full), and         *)
(* Player::prepare_next_round is run once on each of a family of players   *)
(* with full and started rows, a discard of 0..MaxDiscard tiles and few or *)
(* many points.  The tiles come out of the bag.                            *)
(***************************************************************************)
\* Calls of Wall::add_tile made on one wall.
MaxAdded == 3
\* Tiles in the discard of a player whose round ends.
MaxDiscard == 7

\* A wall with the cells of the set S set.
WallOf(S) == [rows |-> [y \in Idx |-> [x \in Idx |-> <<y, x>> \in S]]]

\* The empty wall; row 2 and column 2 complete but for the cell they share;
\* row 0 with one cell free; every cell but one.
WallSeeds ==
    {Wall_new,
     WallOf({c \in Idx \X Idx : (c[1] = 2 \/ c[2] = 2) /\ c # <<2, 2>>}),
     WallOf({c \in Idx \X Idx : c[1] = 0 /\ c[2] # 3}),
     WallOf({c \in Idx \X Idx : c # <<4, 1>>})}

\* The points of the player who is not scored.
ScoreOtherPoints == 3

\* A state whose player to move has the given board; the other player is
\* fresh but for the points.
ScoreState(m, player, tray) ==
    Bind([bag |-> TileSet_new,
          factories |-> <<>>,
          center |-> TileSet_new,
          tray |-> tray,
          players |-> [p \in 0..(NumPlayers - 1) |->
                         IF p = m % NumPlayers THEN player
                         ELSE [Player_new EXCEPT !.points = ScoreOtherPoints]],
          moves |-> m],
         LAMBDA partial :
           [partial EXCEPT !.bag = [t \in Tile |-> TilesPerColour - outside_bag(partial, t)]])

\* The rows of a player whose round ends: as GenRows, the two longest rows
\* empty.
ScoreRows ==
    {[i \in Idx |-> IF i < 3 THEN r[i + 1] ELSE None] :
       r \in GenRow(0) \X GenRow(1) \X GenRow(2)}

\* The points a player enters the round end with.
ScorePoints == {0, 4, 20}

\* The players whose round ends: the discard holds n RED tiles.
ScorePlayers(max_discard) ==
    {[rows |-> rows, points |-> points, wall |-> wall, discard |-> TS(0, 0, 0, 0, n)] :
       rows \in ScoreRows, points \in ScorePoints, wall \in GenWalls, n \in 0..max_discard}

InitScore ==
    /\ \/ /\ pc = "wall"
          /\ \E m \in 0..(NumPlayers - 1) : \E wall \in WallSeeds :
                state = ScoreState(m, [Player_new EXCEPT !.wall = wall], TileSet_new)
       \/ /\ pc = "round_end"
          /\ \E m \in 0..(NumPlayers - 1) : \E player \in ScorePlayers(MaxDiscard) :
                /\ state = ScoreState(m, player, [t \in Tile |-> GenTray])
                /\ GenWellFormed(state)
    /\ panic = "none"
    /\ call = NoCall

\* self.points += self.wall.add_tile(row_index, tile) on the player to move,
\* for a cell that is free, the tile taken from the bag.
AddTile ==
    /\ pc = "wall"
    /\ call.index < MaxAdded
    /\ \E row_index \in Idx : \E tile \in Tile :
          /\ ~has_tile(state.players[current_player(state)].wall, row_index, tile)
          /\ \E added \in {add_tile(state.players[current_player(state)].wall, row_index, tile)} :
                /\ state' = [state EXCEPT
                               !.players[current_player(state)].wall = added.wall,
                               !.players[current_player(state)].points = @ + added.points,
                               !.bag[tile] = @ - 1]
                /\ call' = [before |-> state, index |-> call.index + 1,
                            row |-> row_index, tile |-> tile, points |-> added.points]
    /\ UNCHANGED <<pc, panic>>

\* player.prepare_next_round(&mut self.tray) on the player to move.
Score ==
    /\ pc = "round_end"
    /\ \E r \in {Player_prepare_next_round(state.players[current_player(state)], state.tray)} :
          /\ state' = [state EXCEPT !.players[current_player(state)] = r.player,
                                    !.tray = r.tray]
          /\ panic' = IF r.panic THEN "assigned" ELSE "none"
          /\ pc' = IF r.panic THEN "aborted" ELSE "scored"
    /\ call' = [before |-> state, index |-> 1]

NextScore == AddTile \/ Score

SpecScore == InitScore /\ [][NextScore]_vars

(***************************************************************************)
(* Properties of the scoring (specification SpecScore).                    *)
(***************************************************************************)
\* The wall the last add_tile call left, and the cell it set.
ScoredWall == state.players[current_player(state)].wall

ScoredRow == call.row

ScoredColumn == CHOOSE x \in Idx : WALL(call.row, x) = call.tile

\* c lies between a and b.
Between(a, b, c) == (a <= c /\ c <= b) \/ (b <= c /\ c <= a)

\* The length of the contiguous horizontal (vertical) run of occupied
\* cells through the cell (y, x).
HorizontalRun(wall, y, x) ==
    Cardinality({x2 \in Idx : \A x3 \in Idx : Between(x, x2, x3) => wall.rows[y][x3]})

VerticalRun(wall, y, x) ==
    Cardinality({y2 \in Idx : \A y3 \in Idx : Between(y, y2, y3) => wall.rows[y3][x]})

\* +2 for a complete row, +7 for a complete column.
CompletionBonus(wall, y, x) ==
    (IF \A x2 \in Idx : wall.rows[y][x2] THEN 2 ELSE 0)
      + (IF \A y2 \in Idx : wall.rows[y2][x] THEN 7 ELSE 0)

\* C12: for any wall and any unoccupied cell, add_tile returns the length
\* of the horizontal run through the new cell plus the length of the
\* vertical run through it, minus 1, plus the bonus; an isolated tile
\* scores 1, a tile forming a horizontal run of 3 with a vertical run of 1
\* scores 3; the subtraction of 3 from the four counts never underflows.
C12_PlacementScore ==
    (pc = "wall" /\ call.index > 0) =>
      /\ call.points
           = HorizontalRun(ScoredWall, ScoredRow, ScoredColumn)
               + VerticalRun(ScoredWall, ScoredRow, ScoredColumn) - 1
               + bonus_points_at(ScoredWall, ScoredColumn, ScoredRow)
      /\ (HorizontalRun(ScoredWall, ScoredRow, ScoredColumn) = 1
            /\ VerticalRun(ScoredWall, ScoredRow, ScoredColumn) = 1)
           => call.points = 1
      /\ (HorizontalRun(ScoredWall, ScoredRow, ScoredColumn) = 3
            /\ VerticalRun(ScoredWall, ScoredRow, ScoredColumn) = 1)
           => call.points = 3
      /\ points_sum(ScoredWall, ScoredColumn, ScoredRow) >= 3
      /\ points_at(ScoredWall, ScoredColumn, ScoredRow) >= 1

\* The third tile of a horizontal run on an otherwise empty wall, set
\* between the other two.
C12_Witness ==
    /\ pc = "wall"
    /\ call.index = 3
    /\ Wall_len(ScoredWall) = 3
    /\ HorizontalRun(ScoredWall, ScoredRow, ScoredColumn) = 3
    /\ ScoredColumn \in 1..(WallSize - 2)
    /\ ScoredWall.rows[ScoredRow][ScoredColumn - 1]
    /\ ScoredWall.rows[ScoredRow][ScoredColumn + 1]
    /\ call.points = 3

\* C13: add_tile adds +2 exactly when, after the placement, all 5 cells of
\* the placed tile's row are occupied, and +7 exactly when all 5 cells of
\* its column are (+9 when both); nothing else is added, not for a full
\* wall and not for five tiles of one colour.
C13_CompletionBonus ==
    (pc = "wall" /\ call.index > 0) =>
      /\ bonus_points_at(ScoredWall, ScoredColumn, ScoredRow)
           = CompletionBonus(ScoredWall, ScoredRow, ScoredColumn)
      /\ call.points - points_at(ScoredWall, ScoredColumn, ScoredRow)
           = CompletionBonus(ScoredWall, ScoredRow, ScoredColumn)
      /\ call.points - points_at(ScoredWall, ScoredColumn, ScoredRow) \in {2, 9}
           <=> \A x \in Idx : ScoredWall.rows[ScoredRow][x]
      /\ call.points - points_at(ScoredWall, ScoredColumn, ScoredRow) \in {7, 9}
           <=> \A y \in Idx : ScoredWall.rows[y][ScoredColumn]
      /\ call.points - points_at(ScoredWall, ScoredColumn, ScoredRow) \in {0, 2, 7, 9}

\* The last cell of the wall was set: row and column bonus, and no more.
C13_Witness ==
    /\ pc = "wall"
    /\ call.index > 0
    /\ Wall_len(ScoredWall) = WallSize * WallSize
    /\ call.points = (WallSize + WallSize - 1) + 9

\* P(n): the sum of the first n terms of 1, 1, 2, 2, 2, 3, 3, 3, ...
Penalty(n) ==
    IF n <= 2 THEN n
    ELSE IF n <= 5 THEN 2 + 2 * (n - 2)
    ELSE 8 + 3 * (n - 5)

\* The player whose round ended, before and after, and the points the
\* player has once the full rows are scored.
ScoredBefore == call.before.players[current_player(call.before)]

ScoredAfter == state.players[current_player(call.before)]

PointsAfterRows ==
    commit_rows([player |-> ScoredBefore, tray |-> call.before.tray, panic |-> FALSE], 0)
      .player.points

\* C14: at round end a player with n discarded tiles has the points set
\* to max(0, points after this round's wall scoring - P(n)), P(n) the sum
\* of the first n terms of 1,1,2,2,2,3,3,3,... (P(4) = 6, every tile after
\* the fifth costs 3, no cap); the penalty comes after the row scoring of
\* the same round; the discard is then empty and its tiles are in the tray.
C14_DiscardPenalty ==
    /\ Penalty(4) = 6
    /\ \A n \in 0..(MaxDiscard + FactorySize) : discard_points(n) = Penalty(n)
    /\ pc = "scored" =>
         /\ ScoredAfter.points
              = IF PointsAfterRows >= Penalty(TileSet_len(ScoredBefore.discard))
                THEN PointsAfterRows - Penalty(TileSet_len(ScoredBefore.discard))
                ELSE 0
         /\ ScoredAfter.discard = TileSet_new
         /\ \A t \in Tile :
               state.tray[t] = call.before.tray[t]
                                 + Surplus(ScoredBefore, t, WallSize - 1)
                                 + ScoredBefore.discard[t]

\* A player with more than five discarded tiles and no points scored a
\* full row and was left with no points.
C14_Witness ==
    /\ pc = "scored"
    /\ TileSet_len(ScoredBefore.discard) > 5
    /\ ScoredBefore.points = 0
    /\ PointsAfterRows > 0
    /\ ScoredAfter.points = 0
    /\ TileSet_len(state.tray) > TileSet_len(call.before.tray) + 5

\* C34: the WALL table is a Latin square: every row and every column holds
\* each of the five colours exactly once, with
\* WALL[r][c] = WALL[0][(c - r) mod 5]; hence for every row and colour
\* has_tile and add_tile find exactly one column (position(..).unwrap()
\* does not fail), and the cell add_tile sets is the one of that colour.
C34_WallLayout ==
    /\ \A r \in Idx : \A t \in Tile : Cardinality({c \in Idx : WALL(r, c) = t}) = 1
    /\ \A c \in Idx : \A t \in Tile : Cardinality({r \in Idx : WALL(r, c) = t}) = 1
    /\ \A r \in Idx : \A c \in Idx : WALL(r, c) = WALL(0, (c - r + WallSize) % WallSize)
    /\ (pc = "wall" /\ call.index > 0) =>
         \A c \in Idx :
            ScoredWall.rows[call.row][c] # call.before.players[current_player(state)].wall.rows[call.row][c]
              <=> WALL(call.row, c) = call.tile

\* add_tile has set a cell in the last row, for the colour in its first
\* column.
C34_Witness ==
    /\ pc = "wall"
    /\ call.index > 0
    /\ call.row = WallSize - 1
    /\ call.tile = WALL(WallSize - 1, 0)
    /\ ScoredWall.rows[WallSize - 1][0]
    /\ has_tile(ScoredWall, call.row, call.tile)

\* Row i of the player whose round ended held i + 1 tiles of colour t.
WasFull(i, t) == ScoredBefore.rows[i] = <<t, i + 1>>

\* C28: at round end, for each staging row of capacity k that holds k tiles
\* of colour t, Player::prepare_next_round sets exactly the wall cell of
\* colour t in that row, adds exactly k - 1 tiles of colour t to the tray
\* and empties the row; every row that holds fewer than k tiles is left as
\* it is and gives no wall tile and no points: a player without a full row
\* has the same wall, and the points less the discard penalty.
C28_RowCommit ==
    pc = "scored" =>
      /\ \A i \in Idx :
           ScoredAfter.rows[i]
             = IF \E t \in Tile : WasFull(i, t) THEN None ELSE ScoredBefore.rows[i]
      /\ \A y \in Idx : \A x \in Idx :
           ScoredAfter.wall.rows[y][x]
             <=> (ScoredBefore.wall.rows[y][x] \/ WasFull(y, WALL(y, x)))
      /\ \A t \in Tile :
           state.tray[t] - call.before.tray[t] - ScoredBefore.discard[t]
             = Cardinality({<<i, j>> \in Idx \X Idx : WasFull(i, t) /\ j < i})
      /\ (\A i \in Idx : \A t \in Tile : ~WasFull(i, t)) =>
           ScoredAfter.points
             = Max({0, ScoredBefore.points - Penalty(TileSet_len(ScoredBefore.discard))})

\* A player with a full row of 3 and a started row: the full row went to a
\* free cell of the wall and two tiles to the tray, the started row stayed.
C28_Witness ==
    /\ pc = "scored"
    /\ \E t \in Tile :
          /\ WasFull(2, t)
          /\ ~ScoredBefore.wall.rows[2][position(2, t)]
          /\ ScoredAfter.wall.rows[2][position(2, t)]
          /\ state.tray[t] >= call.before.tray[t] + 2
    /\ ScoredAfter.rows[2] = None
    /\ ScoredBefore.rows[1] # None
    /\ ScoredAfter.rows[1] = ScoredBefore.rows[1]
    /\ Wall_len(ScoredAfter.wall) = Wall_len(ScoredBefore.wall) + 1

\* Some player of s has a wall row with all five cells set.
SomeFullWallRow(s) ==
    \E p \in DOMAIN s.players : \E y \in Idx :
        \A x \in Idx : s.players[p].wall.rows[y][x]

\* C15: winner() is Some exactly when some player has a completely
\* filled wall row, and the value it carries is the highest point total
\* among the players (a score, not a player index).
C15_Winner ==
    /\ (winner(state) # None) <=> SomeFullWallRow(state)
    /\ winner(state) # None =>
         /\ Len(winner(state)) = 1
         /\ \E p \in DOMAIN state.players : state.players[p].points = winner(state)[1]
         /\ \A p \in DOMAIN state.players : state.players[p].points <= winner(state)[1]

\* A tile added to the wall completed its first full row, and winner()
\* carries the mover's points, which are no index of a player.
C15_Witness ==
    /\ pc = "wall"
    /\ call # NoCall
    /\ ~SomeFullWallRow(call.before)
    /\ SomeFullWallRow(state)
    /\ winner(call.before) = None
    /\ winner(state) = <<state.players[current_player(state)].points>>
    /\ winner(state)[1] >= Cardinality(DOMAIN state.players)
    /\ \E p \in DOMAIN state.players : state.players[p].points < winner(state)[1]

(***************************************************************************)
(* The search applied to positions.  A position is a generated state late  *)
(* in a round (few tiles on offer, so that the tree below it stays small;  *)
(* the moves that end the round lead to freshly dealt states, finished     *)
(* games among them), or a finished game as the round end leaves it: a     *)
(* full wall row, no full staging row, empty discards and five factories   *)
(* dealt.  search runs once on a position, for any depth up to MaxDepth    *)
(* and either evaluator; minmax runs once on it for either maximizing      *)
(* player with the full window, as search calls it at the root and as the  *)
(* loops call it on the first child.                                       *)
(***************************************************************************)
MaxDepth == 2

\* The rows of the player to move: none, or a full row and a started row.
SearchRows ==
    {[i \in Idx |-> None],
     [i \in Idx |-> IF i = 1 THEN Some("WHITE", 2)
                    ELSE IF i = 2 THEN Some("BLACK", 1) ELSE None]}

\* The wall of the player to move: empty, or row 0 set but for BLACK.
SearchWalls ==
    {Wall_new, WallOf({<<0, x>> : x \in Idx \ {position(0, "BLACK")}})}

\* The tiles on offer: one last pick, two picks in the center, one factory.
SearchOffers ==
    {[factories |-> <<>>, center |-> TS(1, 0, 0, 0, 0)],
     [factories |-> <<>>, center |-> TS(1, 2, 0, 0, 0)],
     [factories |-> <<TS(2, 1, 1, 0, 0)>>, center |-> TileSet_new]}

SearchStates(moves_before) ==
    {s \in {GenState(m, rows, wall, other, offer, [t \in Tile |-> GenTray]) :
              m \in {moves_before, moves_before + 1}, rows \in SearchRows,
              wall \in SearchWalls, other \in GenOther, offer \in SearchOffers} :
       GenWellFormed(s)}

\* The finished games: the player who moved last has row 0 of the wall
\* full, the round end has dealt five factories.
FinishedOther ==
    [rows |-> [i \in Idx |-> IF i = 4 THEN Some("RED", 2) ELSE None],
     points |-> 3,
     wall |-> WallOf({<<0, x>> : x \in Idx}),
     discard |-> TileSet_new]

FinishedOffer ==
    [factories |-> <<TS(4, 0, 0, 0, 0), TS(0, 4, 0, 0, 0), TS(2, 2, 0, 0, 0),
                     TS(0, 0, 4, 0, 0), TS(1, 1, 1, 1, 0)>>,
     center |-> TileSet_new]

FinishedStates(moves_before) ==
    {s \in {GenState(m, rows, wall, FinishedOther, FinishedOffer, [t \in Tile |-> GenTray]) :
              m \in {moves_before, moves_before + 1},
              rows \in {[i \in Idx |-> None],
                        [i \in Idx |-> IF i = 2 THEN Some("BLACK", 1) ELSE None]},
              wall \in GenWalls} :
       GenWellFormed(s)}

InitSearch ==
    /\ state \in SearchStates(GenMoves) \cup FinishedStates(GenMoves)
    /\ pc = "position"
    /\ panic = "none"
    /\ call = NoCall

\* state = search(&state, &mut evaluation, &mut rng, depth).unwrap(), as in
\* main; unwrap panics on None.
Search ==
    /\ AtPosition
    /\ \E depth \in 0..MaxDepth : \E evaluation \in Evaluations : \E rng \in Rngs :
         \E r \in {search(state, evaluation, rng, depth)} :
            /\ state' = IF r.result # None THEN r.result[1] ELSE state
            /\ panic' = IF r.panic # "none" THEN r.panic
                        ELSE IF r.result = None THEN "unwrap" ELSE "none"
            /\ pc' = IF r.panic # "none" THEN "aborted" ELSE "searched"
            /\ call' = [before |-> state, index |-> 0, depth |-> depth,
                        evaluation |-> evaluation, rng |-> rng,
                        root |-> r.root, result |-> r.result]

\* The windows minmax is called with: the full one of search, and the
\* narrowed ones its loops pass down (a best value so far as alpha or beta).
Windows == {<<I32_MIN, I32_MAX>>, <<4, 5>>}

\* minmax(&state, &mut evaluation, &mut rng, player, depth, alpha, beta)
Minmax ==
    /\ AtPosition
    /\ \E depth \in 0..MaxDepth : \E evaluation \in Evaluations : \E rng \in Rngs :
         \E player \in PlayerIdx(state) : \E window \in Windows :
           \E r \in {minmax(state, evaluation, rng, player, depth, window[1], window[2])} :
              /\ state' = state
              /\ panic' = r.panic
              /\ pc' = IF r.panic # "none" THEN "aborted" ELSE "valued"
              /\ call' = [before |-> state, index |-> 0, depth |-> depth,
                          evaluation |-> evaluation, rng |-> rng, player |-> player,
                          alpha |-> window[1], beta |-> window[2],
                          root |-> r.index, value |-> r.value, visited |-> r.visited]

NextSearch == Search \/ Minmax

SpecSearch == InitSearch /\ [][NextSearch]_vars

(***************************************************************************)
(* Properties of the search (specification SpecSearch).                    *)
(***************************************************************************)
\* The list children returns for the searched state, as the root call of
\* minmax gets it.
SearchedChildren == children(call.before, call.rng).children

\* C16, as stated: search returns None only if the state has no children;
\* for every state with at least one child it returns Some successor, for
\* every depth and whether or not the game is already over.
C16_NoneOnlyWithoutMoves ==
    pc = "searched" => (call.result = None <=> SearchedChildren = <<>>)

\* C16, amended: search returns None only if the state has no children,
\* the depth is 0 or the game is already over; for every state with at
\* least one child, searched to a depth of 1 or more before the game is
\* over, it returns Some successor, one of the children.
C16_NoneOnlyAtLeafOrEnd ==
    pc = "searched" =>
      /\ call.result = None
           <=> \/ SearchedChildren = <<>>
               \/ call.depth = 0
               \/ SomeFullWallRow(call.before)
      /\ call.result # None =>
           \E k \in 1..Len(SearchedChildren) : SearchedChildren[k].state = call.result[1]

\* A search to depth 1 or more of an unfinished game returned a successor.
C16_Witness ==
    /\ pc = "searched"
    /\ call.depth >= 1
    /\ ~SomeFullWallRow(call.before)
    /\ Len(SearchedChildren) > 1
    /\ call.result = <<state>>
    /\ state # call.before

\* C18: search returns the child minmax selected: the index the root call
\* of minmax returns and the list search indexes refer to the same
\* ordering of the same moves, also when the evaluator's heuristic has
\* reordered the list inside minmax.
C18_SelectedChild ==
    pc = "searched" /\ call.root # None =>
      call.result = <<heuristic(call.evaluation, SearchedChildren)[call.root[1] + 1].state>>

\* C19: for a state whose game is over and a depth above 0, minmax returns
\* (None, i32::MAX) when the maximizing player it was given holds the
\* highest point total and (None, i32::MIN) when not, whoever is to move.
C19_GameOverSentinel ==
    pc = "valued" /\ call.depth > 0 /\ SomeFullWallRow(call.before) =>
      /\ call.root = None
      /\ call.value
           = IF \A q \in DOMAIN call.before.players :
                   call.before.players[q].points <= call.before.players[call.player].points
             THEN I32_MAX
             ELSE I32_MIN

\* The recorded call of minmax ran one of its loops: the depth is above 0,
\* the game is not over and there are moves.
Looped == pc = "valued" /\ call.visited # <<>>

\* The recorded call of minmax was for the player to move.
Maximizing == current_player(call.before) = call.player

\* The iterations whose value is the largest, and the smallest, of all.
Highest ==
    {k \in 1..Len(call.visited) :
       \A j \in 1..Len(call.visited) : call.visited[j].value <= call.visited[k].value}

Lowest ==
    {k \in 1..Len(call.visited) :
       \A j \in 1..Len(call.visited) : call.visited[j].value >= call.visited[k].value}

Last(S) == CHOOSE k \in S : \A j \in S : j <= k

\* The loop visited the children in order, up to the m-th.
VisitedInOrder(m) ==
    /\ Len(call.visited) = m
    /\ \A k \in 1..m : call.visited[k].index = k - 1

\* C22: at a maximizing node minmax returns the index of the last visited
\* child whose value is the maximum of the visited children's values, and
\* that maximum; at a minimizing node the last visited child with the
\* minimum; the children are visited in order from the first, and with the
\* full window of search every child is visited.
C22_TieBreak ==
    Looped =>
      /\ Len(call.visited) <= Len(SearchedChildren)
      /\ VisitedInOrder(Len(call.visited))
      /\ Maximizing =>
           /\ call.root = <<call.visited[Last(Highest)].index>>
           /\ call.value = call.visited[Last(Highest)].value
      /\ ~Maximizing =>
           /\ call.root = <<call.visited[Last(Lowest)].index>>
           /\ call.value = call.visited[Last(Lowest)].value
      /\ call.alpha = I32_MIN /\ call.beta = I32_MAX =>
           VisitedInOrder(Len(SearchedChildren))

\* A root call of search in which two children tie for the maximum: the
\* later one is returned, after all children were visited.
C22_Witness ==
    /\ Looped
    /\ Maximizing
    /\ call.alpha = I32_MIN /\ call.beta = I32_MAX
    /\ Len(call.visited) = Len(SearchedChildren)
    /\ \E j, k \in Highest : j < k /\ call.root = <<call.visited[k].index>>
    /\ Highest # 1..Len(call.visited)

\* The list the loop of the recorded call ran over.
VisitedList == heuristic(call.evaluation, SearchedChildren)

\* The points of the player to move in s.
PointsToMove(s) == s.players[s.moves % NumPlayers].points

\* C23: at depth 0 minmax returns (None, the points of the player to move
\* in the state it is given), whoever the maximizing player is and also
\* when the game is over in that state; so at depth 1 every child is valued
\* by the points of the player to move in the child.
C23_LeafEvaluation ==
    pc = "valued" =>
      /\ call.depth = 0 =>
           /\ call.root = None
           /\ call.value = PointsToMove(call.before)
      /\ call.depth = 1 =>
           \A list \in {VisitedList} : \A k \in 1..Len(call.visited) :
              call.visited[k].value = PointsToMove(list[call.visited[k].index + 1].state)

\* minmax at depth 0 on a finished game, for the player who is not to move
\* and whose points differ from the value returned.
C23_Witness ==
    /\ pc = "valued"
    /\ call.depth = 0
    /\ SomeFullWallRow(call.before)
    /\ ~Maximizing
    /\ call.before.players[call.player].points # call.value
    /\ call.value \notin {I32_MIN, I32_MAX}

\* The best value after the first k iterations of the recorded call's
\* loop: the largest (smallest) of init and the values returned so far.
RECURSIVE BestAfter(_, _)
BestAfter(k, init) ==
    IF k = 0 THEN init
    ELSE IF Maximizing
    THEN Max({BestAfter(k - 1, init), call.visited[k].value})
    ELSE Min(BestAfter(k - 1, init), call.visited[k].value)

\* The loop of the recorded call left by its break after iteration k.
CutAfter(k) ==
    IF Maximizing
    THEN BestAfter(k, I32_MIN) > call.beta
    ELSE BestAfter(k, I32_MAX) < call.alpha

\* C24: at a maximizing node the remaining siblings are skipped only once
\* the best value is strictly greater than beta, and the alpha passed to a
\* later sibling is the larger of alpha and the best value so far, beta
\* unchanged; at a minimizing node they are skipped only once the best value
\* is strictly less than alpha, and the beta passed on is the smaller of
\* beta and the best value so far, alpha unchanged; a best value equal to
\* the bound does not cut off.
C24_Pruning ==
    Looped =>
      /\ \A k \in 1..(Len(call.visited) - 1) : ~CutAfter(k)
      /\ Len(call.visited) < Len(SearchedChildren) => CutAfter(Len(call.visited))
      /\ \A k \in 1..Len(call.visited) :
           IF Maximizing
           THEN /\ call.visited[k].alpha = BestAfter(k - 1, call.alpha)
                /\ call.visited[k].beta = call.beta
           ELSE /\ call.visited[k].alpha = call.alpha
                /\ call.visited[k].beta = BestAfter(k - 1, call.beta)

\* A minimizing loop went on after its best value had reached alpha
\* exactly, and passed a narrowed beta to a later child.
C24_Witness ==
    /\ Looped
    /\ ~Maximizing
    /\ \E k \in 1..(Len(call.visited) - 1) :
          /\ BestAfter(k, I32_MAX) = call.alpha
          /\ call.visited[k + 1].beta = call.alpha
          /\ call.visited[k + 1].beta < call.beta

(***************************************************************************)
(* Play from a locked position.  main alternates search and random_move    *)
(* while winner() is None; either replaces the state by one of its         *)
(* children.  In the position each player holds i RED tiles in row i for   *)
(* i = 1..4 (rows that lack one tile, and all twenty RED tiles), has row 0 *)
(* of the wall set but for RED and no points.  Play reaches such a         *)
(* position when every RED pick has been put in a row with room to spare   *)
(* (a factory with one RED tile gives a pick of one) and the other colours *)
(* have gone through row 0.  `call` also keeps the position the play       *)
(* started from.                                                           *)
(***************************************************************************)
MaxLockMoves == 34

LockRows == [i \in Idx |-> IF i = 0 THEN None ELSE Some("RED", i)]

LockPlayer ==
    [rows |-> LockRows,
     points |-> 0,
     wall |-> WallOf({<<0, x>> : x \in Idx \ {position(0, "RED")}}),
     discard |-> TileSet_new]

\* The factories of a deal from a bag without WHITE but for two tiles.
LockOffer ==
    [factories |-> <<TS(2, 2, 0, 0, 0), TS(0, 4, 0, 0, 0), TS(0, 4, 0, 0, 0),
                     TS(0, 4, 0, 0, 0), TS(0, 4, 0, 0, 0)>>,
     center |-> TileSet_new]

LockState(m) ==
    Bind(GenState(m, LockRows, LockPlayer.wall, LockPlayer, LockOffer, TileSet_new),
         LAMBDA s : [s EXCEPT !.players = [p \in DOMAIN s.players |-> LockPlayer]])

InitLock ==
    /\ \E m \in {GenMoves, GenMoves + 1} :
          /\ state = LockState(m)
          /\ GenWellFormed(state)
    /\ pc = "position"
    /\ panic = "none"
    /\ call = [before |-> state, index |-> 0, start |-> state]

\* main, the body of `while state.winner().is_none()`: the state becomes
\* the child search or random_move returns.
Play ==
    /\ AtPosition
    /\ winner(state) = None
    /\ state.moves < GenMoves + MaxLockMoves
    /\ \E rng \in Rngs : \E c \in {children(state, rng)} :
         IF c.panic # "none" \/ c.children = <<>>
         THEN /\ state' = state
              /\ panic' = IF c.panic # "none" THEN c.panic ELSE "no_move"
              /\ pc' = "aborted"
              /\ call' = [before |-> state, index |-> 0, start |-> call.start]
         ELSE \E k \in 1..Len(c.children) :
              /\ state' = c.children[k].state
              /\ panic' = "none"
              /\ pc' = "play"
              /\ call' = [before |-> state, index |-> k, child |-> c.children[k],
                          start |-> call.start]

NextLock == Play

SpecLock == InitLock /\ [][NextLock]_vars

(***************************************************************************)
(* Properties of play (specification SpecLock).                            *)
(***************************************************************************)
\* All RED tiles lie in rows 1..4 of the players, row i holding i of them.
Locked(s) ==
    \A p \in DOMAIN s.players : \A i \in 1..(WallSize - 1) :
       s.players[p].rows[i] = Some("RED", i)

\* From the locked position the play stays locked, no wall row is full and
\* nothing panics.
LockedForGood ==
    /\ Locked(state)
    /\ ~SomeFullWallRow(state)
    /\ panic = "none"

\* The play is back, with no winner, in the position it started from: the
\* same bag, factories, center, tray and players, and the same player to
\* move; only the count of moves differs.
Recurs ==
    /\ pc = "play"
    /\ winner(state) = None
    /\ state.moves > call.start.moves
    /\ current_player(state) = current_player(call.start)
    /\ [state EXCEPT !.moves = call.start.moves] = call.start

\* C20: play terminates: repeatedly replacing the state by one of its
\* legal successors, whichever is picked, reaches a state where winner()
\* is defined, so that the loop `while state.winner().is_none()` of main
\* ends.  children depends on the count of moves only through the player
\* to move, so a play that ends under every choice never comes back to a
\* position with no winner: from there the same picks repeat for ever.
C20_PlayTerminates == ~Recurs

(***************************************************************************)
(* Properties of the staging rows from move to move (specification         *)
(* SpecPick).                                                              *)
(***************************************************************************)
\* Row i of player p is as it may be after a step that found it as `old`:
\* a row that held tiles still holds that colour and no fewer tiles, or it
\* is empty after the step's move ended the round with the row full.
RowKept(old, p, i) ==
    old # None =>
      IF state'.players[p].rows[i] # None
      THEN /\ state'.players[p].rows[i][1] = old[1]
           /\ state'.players[p].rows[i][2] >= old[2]
      ELSE /\ call'.index > 0
           /\ is_empty(call'.child.staged)
           /\ call'.child.staged.players[p].rows[i] = <<old[1], i + 1>>

\* C29: from one state to the next a non-empty staging row keeps its colour
\* and its fill count does not decrease, except in a move that ends the
\* round with the row at full capacity, where the row becomes empty; a row
\* never changes directly from one colour to another.
C29_RowStability ==
    [][\A p \in DOMAIN state.players : \A i \in Idx :
          RowKept(state.players[p].rows[i], p, i)]_vars

\* The move that ended the round filled a started row of the mover, which
\* is empty afterwards, while a started row of the mover stayed as it was.
C29_Witness ==
    /\ CallCrossed
    /\ pc = "picked"
    /\ \E i \in Idx :
          /\ call.before.players[Mover].rows[i] # None
          /\ call.before.players[Mover].rows[i][2] < i + 1
          /\ call.child.staged.players[Mover].rows[i]
               = <<call.before.players[Mover].rows[i][1], i + 1>>
          /\ state.players[Mover].rows[i] = None
    /\ \E j \in Idx :
          /\ call.before.players[Mover].rows[j] # None
          /\ state.players[Mover].rows[j] = call.before.players[Mover].rows[j]

(***************************************************************************)
(* Properties of the deal (specification SpecPick).                        *)
(***************************************************************************)
\* The tiles the deal of a round end can draw from: the bag of the scored
\* state, with the tray when the bag is short of a full deal.
Drawable(s) ==
    IF TileSet_len(s.bag) < FactorySize * NumFactories
    THEN TileSet_len(s.bag) + TileSet_len(s.tray)
    ELSE TileSet_len(s.bag)

\* C21: in a two-player game, every deal executed by round-end processing
\* (and the initial one) finds at least 20 tiles in the bag after the
\* optional refill from the tray, so that draw_one is never called on an
\* empty tile set and WeightedIndex::new(..).unwrap() does not panic.
C21_NoEmptyDraw ==
    /\ panic # "empty"
    /\ CallCrossed =>
         \A drawable \in {Drawable(Scored(call.child.staged))} :
            /\ drawable >= FactorySize * NumFactories
            /\ TileSet_len(state.bag) = drawable - FactorySize * NumFactories

\* A round ended with fewer than 20 tiles in the bag, and five factories
\* were dealt.
C21_Witness ==
    /\ CallCrossed
    /\ pc = "picked"
    /\ TileSet_len(Scored(call.child.staged).bag) < FactorySize * NumFactories
    /\ Len(state.factories) = NumFactories

(***************************************************************************)
(* The move list under two random sources.  search runs children twice on  *)
(* the same state, once inside minmax and once to index the result, with   *)
(* the random source in whatever condition the search left it; here        *)
(* children runs on one position with two sources of different streams,    *)
(* and `call` records both lists.                                          *)
(***************************************************************************)
\* The random sources: those of the game and one more stream.
Streams == Rngs \cup {[val |-> SeedSpacing(MaxSeed + 1), pos |-> 0]}

InitStreams ==
    /\ state \in GenStates(GenMoves)
    /\ pc = "position"
    /\ panic = "none"
    /\ call = NoCall

\* state.children(rng) twice on the same state, with different sources.
Children ==
    /\ pc = "position"
    /\ \E first \in Streams : \E second \in {r \in Streams : r.val > first.val} :
         \E a \in {children(state, first)} : \E b \in {children(state, second)} :
            /\ state' = state
            /\ panic' = IF a.panic # "none" THEN a.panic ELSE b.panic
            /\ pc' = IF a.panic # "none" \/ b.panic # "none" THEN "aborted" ELSE "listed"
            /\ call' = [before |-> state, index |-> 0,
                        rngs |-> <<first, second>>, lists |-> <<a, b>>]

NextStreams == Children

SpecStreams == InitStreams /\ [][NextStreams]_vars

(***************************************************************************)
(* Properties of the two lists (specification SpecStreams).                *)
(***************************************************************************)
\* The tiles of colour t in the bag and the factories of s together.
InBagOrFactory(s, t) ==
    s.bag[t] + factories_sum([k \in 1..Len(s.factories) |-> [u \in Tile |->
                                IF u = t THEN s.factories[k][u] ELSE 0]],
                             Len(s.factories))

\* The two children come from the same pick and agree on everything but
\* the split of the tiles between the bag and the factories.
SameButDeal(a, b) ==
    /\ a.origin = b.origin /\ a.tile = b.tile /\ a.row = b.row
    /\ a.forced = b.forced /\ a.staged = b.staged
    /\ a.state.center = b.state.center
    /\ TileSet_len(a.state.tray) + TileSet_len(a.state.bag)
         = TileSet_len(b.state.tray) + TileSet_len(b.state.bag)
    /\ a.state.players = b.state.players
    /\ a.state.moves = b.state.moves
    /\ \A t \in Tile : InBagOrFactory(a.state, t) = InBagOrFactory(b.state, t)

\* C25: for one state and two different random streams, the two lists
\* children() returns have the same length, and their i-th elements come
\* from the same pick and agree on center, tray-plus-bag total, players and
\* moves; they differ at most in how the tiles are split between the bag
\* and the dealt factories, and only where the pick ended the round: the
\* other children are identical, and a call none of whose children ends the
\* round leaves the random source as it was.
C25_RandomnessOnlyInDeal ==
    pc = "listed" =>
      /\ Len(call.lists[1].children) = Len(call.lists[2].children)
      /\ \A i \in 1..Len(call.lists[1].children) :
           /\ SameButDeal(call.lists[1].children[i], call.lists[2].children[i])
           /\ ~is_empty(call.lists[1].children[i].staged) =>
                call.lists[1].children[i].state = call.lists[2].children[i].state
      /\ (\A i \in 1..Len(call.lists[1].children) :
             ~is_empty(call.lists[1].children[i].staged)) =>
           call.lists[1].rng = call.rngs[1]

\* The two lists differ in the factories dealt after a pick that ended the
\* round.
C25_Witness ==
    /\ pc = "listed"
    /\ \E i \in 1..Len(call.lists[1].children) :
          /\ is_empty(call.lists[1].children[i].staged)
          /\ call.lists[1].children[i].state.factories
               # call.lists[2].children[i].state.factories
          /\ call.lists[1].children[i].state.bag # call.lists[2].children[i].state.bag

(***************************************************************************)
(* The deal on its own.  State::deal runs on a new game of any number of   *)
(* players, and at the end of a round after the players were scored: the   *)
(* factories and the center are empty, every player holds one tile in a    *)
(* staging row, the bag holds between 16 and 16 + MaxBagRed tiles and the  *)
(* tray the rest.                                                          *)
(***************************************************************************)
MaxPlayers == 4

MaxBagRed == 9

\* A player between rounds: one BLACK tile in the row of capacity 2.
DealPlayer ==
    [rows |-> [i \in Idx |-> IF i = 1 THEN Some("BLACK", 1) ELSE None],
     points |-> 0,
     wall |-> Wall_new,
     discard |-> TileSet_new]

\* The state of `players` players at the end of a round with `red` RED
\* tiles in the bag.
DealState(players, red) ==
    [bag |-> TS(4, 4, 4, 4, red),
     factories |-> <<>>,
     center |-> TileSet_new,
     tray |-> TS(TilesPerColour - 4 - players, TilesPerColour - 4, TilesPerColour - 4,
                 TilesPerColour - 4, TilesPerColour - red),
     players |-> [p \in 0..(players - 1) |-> DealPlayer],
     moves |-> GenMoves]

InitDeal ==
    /\ \E players \in 1..MaxPlayers :
          \/ state = State_new(players)
          \/ \E red \in 0..MaxBagRed : state = DealState(players, red)
    /\ pc = "dealing"
    /\ panic = "none"
    /\ call = NoCall

\* self.deal(rng), from main and from State::prepare_next_round.
DealRound ==
    /\ pc = "dealing"
    /\ \E rng \in Streams : \E d \in {deal(state, rng)} :
          /\ state' = d.state
          /\ panic' = IF d.panic THEN "empty" ELSE "none"
          /\ pc' = IF d.panic THEN "aborted" ELSE "dealt"
          /\ call' = [before |-> state, index |-> 0, rng |-> rng]

NextDeal == DealRound

SpecDeal == InitDeal /\ [][NextDeal]_vars

(***************************************************************************)
(* Properties of the deal on its own (specification SpecDeal).             *)
(***************************************************************************)
\* The tiles of colour t in the factories of s.
Dealt(s, t) == InBagOrFactory(s, t) - s.bag[t]

\* C26: deal moves the whole tray into the bag, leaving the tray empty, if
\* and only if the bag holds fewer than 20 tiles when deal starts; with 20
\* tiles or more the tray is left unchanged and the factories come from the
\* bag alone; the refill happens before any factory is drawn: the first
\* factory is drawn from bag and tray together.
C26_BagRefill ==
    pc = "dealt" =>
      IF TileSet_len(call.before.bag) < 20
      THEN /\ state.tray = TileSet_new
           /\ \A t \in Tile :
                state.bag[t] + Dealt(state, t) = call.before.bag[t] + call.before.tray[t]
           /\ state.factories[1]
                = draw(extend(call.before.bag, call.before.tray), call.rng, 4).tileset
      ELSE /\ state.tray = call.before.tray
           /\ \A t \in Tile : state.bag[t] + Dealt(state, t) = call.before.bag[t]
           /\ state.factories[1] = draw(call.before.bag, call.rng, 4).tileset

\* A bag of 19 tiles was refilled, and the first factory holds more tiles
\* of a colour than the bag held.
C26_Witness ==
    /\ pc = "dealt"
    /\ TileSet_len(call.before.bag) = 19
    /\ TileSet_len(call.before.tray) > 0
    /\ state.tray = TileSet_new
    /\ \E t \in Tile : state.factories[1][t] > call.before.bag[t]

\* C27: deal appends exactly 5 factories of exactly 4 tiles each, 20 tiles
\* leaving the bag, for every number of players the state was constructed
\* with.
C27_FactoryCount ==
    /\ pc # "aborted"
    /\ pc = "dealt" =>
         /\ Len(state.factories) = Len(call.before.factories) + 5
         /\ \A k \in 1..Len(state.factories) : TileSet_len(state.factories[k]) = 4
         /\ TileSet_len(state.bag) + TileSet_len(state.tray) + 20
              = TileSet_len(call.before.bag) + TileSet_len(call.before.tray)

\* A game of four players was dealt five factories.
C27_Witness ==
    /\ pc = "dealt"
    /\ Cardinality(DOMAIN state.players) = 4
    /\ Len(state.factories) = 5

(***************************************************************************)
(* random_move on its own: on the positions of the search, and on a new    *)
(* game that was not dealt, where nothing is on offer.                     *)
(***************************************************************************)
MaxChoice == 5

InitRandom ==
    /\ \/ state \in SearchStates(GenMoves) \cup FinishedStates(GenMoves)
       \/ \E players \in 1..MaxPlayers : state = State_new(players)
    /\ pc = "position"
    /\ panic = "none"
    /\ call = NoCall

\* state = random_move(&state, &mut rng), as in main.
RandomMove ==
    /\ pc = "position"
    /\ \E rng \in Streams : \E choice \in 0..MaxChoice :
         \E r \in {random_move(state, rng, choice)} :
            /\ state' = IF r.result # None THEN r.result[1] ELSE state
            /\ panic' = r.panic
            /\ pc' = IF r.panic # "none" THEN "aborted" ELSE "moved"
            /\ call' = [before |-> state, index |-> 0, rng |-> rng, choice |-> choice]

SpecRandom == InitRandom /\ [][RandomMove]_vars

(***************************************************************************)
(* Properties of random_move (specification SpecRandom).                   *)
(***************************************************************************)
\* The states a and b differ at most in how the tiles are split between the
\* bag and the factories.
SameStateButDeal(a, b) ==
    /\ a.center = b.center /\ a.tray = b.tray
    /\ a.players = b.players /\ a.moves = b.moves
    /\ \A t \in Tile : InBagOrFactory(a, t) = InBagOrFactory(b, t)

\* C31: random_move(state) returns an element of children(state), up to
\* the content of the re-deal, with moves = state.moves + 1; when
\* children(state) is empty, as it is exactly when no tile is on offer, it
\* fails by the unwrap of None and returns nothing.
C31_RandomMove ==
    /\ pc = "moved" =>
         /\ state.moves = call.before.moves + 1
         /\ TilesOnOffer(call.before)
         /\ \A rng \in Streams : \A c \in {children(call.before, rng).children} :
               \E k \in 1..Len(c) : SameStateButDeal(c[k].state, state)
    /\ pc = "aborted" =>
         /\ panic = "unwrap"
         /\ ~TilesOnOffer(call.before)
         /\ children(call.before, call.rng).children = <<>>
         /\ state = call.before
    /\ pc = "position" \/ TilesOnOffer(call.before) \/ pc = "aborted"

\* random_move took a move that ended the round: the state returned is a
\* child for the other random source too, but for the factories dealt.
C31_Witness ==
    /\ pc = "moved"
    /\ state.moves = call.before.moves + 1
    /\ Len(call.before.factories) = 0
    /\ Len(state.factories) = NumFactories
    /\ \E rng \in Streams : \A c \in {children(call.before, rng).children} :
          \A k \in 1..Len(c) : c[k].state # state

(***************************************************************************)
(* The search over deterministic and chance nodes (src/src/minmax.rs).     *)
(* A node is GameState::Deterministic or GameState::Stochastic:            *)
(*   [det |-> TRUE, mover, winner, points, children]                       *)
(*   [det |-> FALSE, outcomes], outcomes a sequence of <<n, node>> for the *)
(*   probability n / Quarters and a deterministic node.                    *)
(* evaulate(state, player) is points[player + 1].  The probabilities are   *)
(* quarters and the points small, so that the f32 products and their sum   *)
(* are exact.  A value is i32::MAX or i32::MIN, which `as f32` makes 2^31   *)
(* and -2^31, or small; an f32 sum is [big, small] for big * 2^29 plus      *)
(* small quarters, and when big is not 0 the small part is below half the  *)
(* spacing of the f32 numbers at 2^29 and is rounded away by the addition. *)
(***************************************************************************)
Quarters == 4

\* 2^29, a quarter of 2^31.
QuarterOfTwoTo31 == I32_MAX \div Quarters + 1

\* probability * (value as f32), the probability n / Quarters.
f32_product(n, value) ==
    IF value = I32_MAX THEN [big |-> n, small |-> 0]
    ELSE IF value = I32_MIN THEN [big |-> -n, small |-> 0]
    ELSE [big |-> 0, small |-> n * value]

\* The f32 sum of a and b.
f32_add(a, b) ==
    IF a.big # 0 \/ b.big # 0
    THEN [big |-> a.big + b.big, small |-> 0]
    ELSE [big |-> 0, small |-> a.small + b.small]

\* f32::round (half away from zero), then `as i32`, which saturates.
round_as_i32(x) ==
    IF x.big >= Quarters THEN I32_MAX
    ELSE IF x.big <= -Quarters THEN I32_MIN
    ELSE IF x.big # 0 THEN x.big * QuarterOfTwoTo31
    ELSE IF x.small >= 0
    THEN (2 * x.small + Quarters) \div (2 * Quarters)
    ELSE -((2 * (-x.small) + Quarters) \div (2 * Quarters))

\* The filter_map of minmax: the deterministic children, in order.
deterministic_children(node) == SelectSeq(node.children, LAMBDA child : child.det)

RECURSIVE tree_minmax(_, _, _, _, _)
RECURSIVE tree_maximize(_, _, _, _, _)
RECURSIVE tree_minimize(_, _, _, _, _)
RECURSIVE chance_value(_, _, _, _, _, _)

\* minmax of minmax.rs: returns [index, value], index None or <<i>>.
tree_minmax(node, player, depth, alpha, beta) ==
    IF node.det
    THEN IF depth = 0
         THEN [index |-> None, value |-> node.points[node.mover + 1]]
         ELSE IF node.winner # None
         THEN [index |-> None,
               value |-> IF node.winner[1] = player THEN I32_MAX ELSE I32_MIN]
         ELSE Bind(IF node.mover = player
                   THEN tree_maximize(deterministic_children(node), player, depth,
                                      [index |-> None, value |-> I32_MIN,
                                       alpha |-> alpha, beta |-> beta], 0)
                   ELSE tree_minimize(deterministic_children(node), player, depth,
                                      [index |-> None, value |-> I32_MAX,
                                       alpha |-> alpha, beta |-> beta], 0),
                   LAMBDA best : [index |-> best.index, value |-> best.value])
    ELSE [index |-> None,
          value |-> round_as_i32(chance_value(node, player, depth, alpha, beta,
                                              Len(node.outcomes)))]

\* minmax of minmax.rs, the maximizing loop from element index on.
tree_maximize(states, player, depth, best, index) ==
    IF index >= Len(states)
    THEN best
    ELSE Bind(tree_minmax(states[index + 1], player, depth - 1, best.alpha, best.beta),
              LAMBDA r :
           Bind(IF r.value >= best.value
                THEN [best EXCEPT !.value = r.value, !.index = <<index>>]
                ELSE best, LAMBDA b :
             IF b.value > b.beta
             THEN b
             ELSE tree_maximize(states, player, depth,
                                [b EXCEPT !.alpha = IF @ >= b.value THEN @ ELSE b.value],
                                index + 1)))

\* minmax of minmax.rs, the minimizing loop from element index on.
tree_minimize(states, player, depth, best, index) ==
    IF index >= Len(states)
    THEN best
    ELSE Bind(tree_minmax(states[index + 1], player, depth - 1, best.alpha, best.beta),
              LAMBDA r :
           Bind(IF r.value <= best.value
                THEN [best EXCEPT !.value = r.value, !.index = <<index>>]
                ELSE best, LAMBDA b :
             IF b.value < b.alpha
             THEN b
             ELSE tree_minimize(states, player, depth,
                                [b EXCEPT !.beta = IF @ <= b.value THEN @ ELSE b.value],
                                index + 1)))

\* chance_value: the sum of probability * value over the first k outcomes;
\* the depth is passed on as it is.
chance_value(chance, player, depth, alpha, beta, k) ==
    IF k = 0 THEN [big |-> 0, small |-> 0]
    ELSE f32_add(chance_value(chance, player, depth, alpha, beta, k - 1),
                 f32_product(chance.outcomes[k][1],
                             tree_minmax(chance.outcomes[k][2], player, depth,
                                         alpha, beta).value))

(***************************************************************************)
(* minmax of minmax.rs run once on a small tree: a chance node, or a       *)
(* deterministic node of player 0 with one to MaxChildren children, each a *)
(* leaf where player 1 is to move or a chance node over two such leaves.   *)
(***************************************************************************)
MaxChildren == 3

MaxTreeDepth == 2

Leaf(value) ==
    [det |-> TRUE, mover |-> 1, winner |-> None, points |-> <<0, value>>,
     children |-> <<>>]

Leaves == {Leaf(value) : value \in {-3, 1, 6}}

ChanceNodes ==
    {[det |-> FALSE, outcomes |-> <<<<n, a>>, <<Quarters - n, b>>>>] :
       n \in {1, 2}, a \in Leaves, b \in Leaves}

Roots(max_children) ==
    {[det |-> TRUE, mover |-> 0, winner |-> None, points |-> <<2, 2>>,
      children |-> list] :
       list \in UNION {[1..n -> Leaves \cup {c \in ChanceNodes : c.outcomes[1][1] = 2}] :
                             n \in 1..max_children}}

InitTree ==
    /\ state \in Roots(MaxChildren) \cup ChanceNodes
    /\ pc = "tree"
    /\ panic = "none"
    /\ call = NoCall

\* minmax(state, &mut evaluation, player, depth, i32::MIN, i32::MAX)
TreeMinmax ==
    /\ pc = "tree"
    /\ \E depth \in 0..MaxTreeDepth : \E player \in {0, 1} :
         \E r \in {tree_minmax(state, player, depth, I32_MIN, I32_MAX)} :
            /\ call' = [before |-> state, index |-> 0, depth |-> depth,
                        player |-> player, root |-> r.index, value |-> r.value]
    /\ pc' = "valued"
    /\ UNCHANGED <<state, panic>>

SpecTree == InitTree /\ [][TreeMinmax]_vars

(***************************************************************************)
(* Properties of the search over chance nodes (specification SpecTree).    *)
(***************************************************************************)
\* The value of a leaf: the points of the player to move in it.
LeafValue(leaf) == leaf.points[leaf.mover + 1]

\* Twice the value of a child of the root searched to depth 1: a leaf's
\* value, a chance node's expectation of its outcomes' values (in halves:
\* the expectation is a number of quarters, and the values are compared).
ChildValue(child) ==
    IF child.det
    THEN Quarters * LeafValue(child)
    ELSE child.outcomes[1][1] * LeafValue(child.outcomes[1][2])
           + child.outcomes[2][1] * LeafValue(child.outcomes[2][2])

\* The children of the searched root that are best for the player the
\* search is for: the largest value when that player is to move, the
\* smallest when not.
BestChildren ==
    {k \in 1..Len(call.before.children) :
       \A j \in 1..Len(call.before.children) :
          IF call.before.mover = call.player
          THEN ChildValue(call.before.children[j]) <= ChildValue(call.before.children[k])
          ELSE ChildValue(call.before.children[j]) >= ChildValue(call.before.children[k])}

\* C32: when the children of a deterministic node include a chance node,
\* minmax values that child as the probability-weighted expectation of the
\* values of its outcomes, and the child takes part in the choice of the
\* best child like any deterministic child: the index returned is that of
\* a best child among all the children, and the value returned is its
\* value.
C32_ChanceChildren ==
    pc = "valued" /\ call.before.det /\ call.depth = 1 =>
      /\ call.root # None
      /\ call.root[1] + 1 \in BestChildren
      /\ \E k \in BestChildren :
            call.value
              = round_as_i32([big |-> 0, small |-> ChildValue(call.before.children[k])])

(***************************************************************************)
(* TileSet::draw on its own: on every tile set of up to MaxCount tiles of  *)
(* each colour, for every count the set can give and every raw value of    *)
(* the random source up to MaxVal.  `state` is the tile set.               *)
(***************************************************************************)
MaxCount == 2

MaxVal == 5

InitDraw ==
    /\ state \in [Tile -> 0..MaxCount]
    /\ pc = "bag"
    /\ panic = "none"
    /\ call = NoCall

\* let tiles = self.bag.draw(rng, count)
Draw ==
    /\ pc = "bag"
    /\ \E n \in 0..FactorySize : \E val \in 0..MaxVal :
         /\ n <= TileSet_len(state)
         /\ \E d \in {draw(state, [val |-> val, pos |-> 0], n)} :
               /\ state' = d.source
               /\ panic' = IF d.panic THEN "empty" ELSE "none"
               /\ pc' = IF d.panic THEN "aborted" ELSE "drawn"
               /\ call' = [before |-> state, index |-> 0, count |-> n,
                           val |-> val, drawn |-> d.tileset]

SpecDraw == InitDraw /\ [][Draw]_vars

(***************************************************************************)
(* Properties of TileSet::draw (specification SpecDraw).                   *)
(***************************************************************************)
\* C33: draw(n) on a tile set holding at least n tiles returns a tile set
\* of exactly n tiles and does not panic; for every colour the count in
\* the source before equals the count after plus the count returned, so
\* that no colour is returned that the source did not hold at that draw.
C33_Draw ==
    /\ pc # "aborted"
    /\ pc = "drawn" =>
         /\ call.drawn["BLACK"] + call.drawn["WHITE"] + call.drawn["AZUL"]
              + call.drawn["YELLOW"] + call.drawn["RED"] = call.count
         /\ \A t \in Tile :
               /\ call.before[t] = state[t] + call.drawn[t]
               /\ call.before[t] = 0 => call.drawn[t] = 0

\* Four tiles drawn from a set that lacked a colour, a colour used up on
\* the way and two colours or more returned.
C33_Witness ==
    /\ pc = "drawn"
    /\ call.count = FactorySize
    /\ \E t \in Tile : call.before[t] = 0
    /\ \E t \in Tile : call.before[t] > 0 /\ state[t] = 0
    /\ Cardinality({t \in Tile : call.drawn[t] > 0}) >= 2
    /\ \E t \in Tile : state[t] > 0

(***************************************************************************)
(* The root call of the search with an evaluator that does not reorder:    *)
(* minmax runs once, for either player, with the window (i32::MIN,         *)
(* i32::MAX) and the evaluator Fish, on a position of the search or on an  *)
(* endgame.  In an endgame three picks are left in the round and the other *)
(* player holds the tile that fills row 0 of the wall, so that the round   *)
(* end finishes the game and the tree stays small at any depth; there the  *)
(* depth goes up to MaxRootDepth.                                          *)
(***************************************************************************)
MaxRootDepth == 3

\* The other player of an endgame: row 0 of the wall set but for BLACK,
\* BLACK in staging row 0, row 2 one tile short with AZUL.
EndgameOther ==
    [rows |-> [i \in Idx |-> IF i = 0 THEN Some("BLACK", 1)
                             ELSE IF i = 1 THEN Some("WHITE", 1)
                             ELSE IF i = 2 THEN Some("AZUL", 2) ELSE None],
     points |-> 3,
     wall |-> WallOf({<<0, x>> : x \in Idx \ {position(0, "BLACK")}}),
     discard |-> [TileSet_new EXCEPT !["RED"] = 1]]

\* The tiles on offer in an endgame: three picks.
EndgameOffers ==
    {[factories |-> <<>>, center |-> TS(1, 3, 1, 0, 0)],
     [factories |-> <<TS(0, 3, 1, 0, 0)>>, center |-> TS(1, 0, 0, 0, 0)]}

Endgames(moves_before) ==
    {s \in {GenState(m, [i \in Idx |-> None], Wall_new, EndgameOther, offer,
                     [t \in Tile |-> GenTray]) :
              m \in {moves_before, moves_before + 1}, offer \in EndgameOffers} :
       GenWellFormed(s)}

InitRoot ==
    /\ state \in SearchStates(GenMoves) \cup FinishedStates(GenMoves) \cup Endgames(GenMoves)
    /\ pc = "position"
    /\ panic = "none"
    /\ call = NoCall

\* minmax(&state, &mut evaluation, &mut rng, player, depth, i32::MIN, i32::MAX)
MinmaxRoot ==
    /\ AtPosition
    /\ \E depth \in 0..(IF state \in Endgames(GenMoves) THEN MaxRootDepth ELSE MaxDepth) :
       \E rng \in Rngs : \E player \in PlayerIdx(state) :
         \E r \in {minmax(state, "Fish", rng, player, depth, I32_MIN, I32_MAX)} :
            /\ state' = state
            /\ panic' = r.panic
            /\ pc' = IF r.panic # "none" THEN "aborted" ELSE "valued"
            /\ call' = [before |-> state, index |-> 0, depth |-> depth, rng |-> rng,
                        player |-> player, root |-> r.index, value |-> r.value,
                        visited |-> r.visited]

SpecRoot == InitRoot /\ [][MinmaxRoot]_vars

(***************************************************************************)
(* Properties of the pruning (specification SpecRoot).                     *)
(***************************************************************************)
\* Depth-limited minimax of s for `player` without a window: the points of
\* the player to move at depth 0, the value minmax gives a finished game
\* (the same leaf values as the search), and
\* else the largest (smallest) value of the children when `player` is (is
\* not) to move; i32::MIN (i32::MAX) when there is no child.
\* The least element of a non-empty set of integers.
Least(S) == CHOOSE m \in S : \A x \in S : m <= x

RECURSIVE Plain(_, _, _, _)
Plain(s, rng, player, depth) ==
    IF depth = 0 THEN PointsToMove(s)
    ELSE IF winner(s) # None
    THEN (IF winner(s)[1] = player THEN I32_MAX ELSE I32_MIN)
    ELSE Bind(children(s, rng).children, LAMBDA list :
           Bind({Plain(list[k].state, rng, player, depth - 1) : k \in 1..Len(list)},
                LAMBDA values :
                  IF s.moves % NumPlayers = player
                  THEN Max(values \cup {I32_MIN})
                  ELSE Least(values \cup {I32_MAX})))

\* The values plain minimax gives the children of the searched state.
PlainValues ==
    Bind(SearchedChildren, LAMBDA list :
      [k \in 1..Len(list) |-> Plain(list[k].state, call.rng, call.player, call.depth - 1)])

\* C35: for every state, depth and an evaluator that does not reorder, the
\* value the root call minmax(state, player, depth, i32::MIN, i32::MAX)
\* returns is the value of plain depth-limited minimax without any cutoff
\* on the same tree with the same leaf values, and the index it returns is
\* the largest index among the root children whose plain minimax value is
\* optimal.
C35_PruningPreservesResult ==
    pc = "valued" =>
      /\ call.value = Plain(call.before, call.rng, call.player, call.depth)
      /\ call.root # None =>
           \A values \in {PlainValues} :
              /\ values[call.root[1] + 1] = call.value
              /\ \A k \in (call.root[1] + 2)..Len(values) : values[k] # call.value

\* The call for a child of the searched state, an unfinished game, left
\* children of that child unvisited: v is the iteration of the root's loop.
CutBelow(list, v) ==
    /\ winner(list[v.index + 1].state) = None
    /\ Len(minmax(list[v.index + 1].state, "Fish", call.rng, call.player,
                  call.depth - 1, v.alpha, v.beta).visited)
         < Len(children(list[v.index + 1].state, call.rng).children)

\* A search of depth 2 or more in which a cutoff below the root left
\* children unvisited, and in which children of the root tie for the best
\* value while others fall short of it.
C35_Witness ==
    /\ pc = "valued"
    /\ call.depth >= 2
    /\ call.root # None
    /\ \A list \in {SearchedChildren} :
          \E k \in 1..Len(call.visited) : CutBelow(list, call.visited[k])
    /\ \A values \in {PlainValues} :
          /\ \E j, k \in 1..Len(values) : j # k /\ values[j] = call.value /\ values[k] = call.value
          /\ \E k \in 1..Len(values) : values[k] # call.value

(***************************************************************************)
(* Successors across the round boundary.  children is applied to a         *)
(* position late in a round, to an endgame or to a finished game, and      *)
(* again to the successor taken, MaxRoundMoves times at most; it is        *)
(* applied to finished games as to any other state (minmax and main test   *)
(* winner() themselves, children does not).                                *)
(***************************************************************************)
MaxRoundMoves == 1

\* The last factory on offer, of one colour, the center empty: the pick
\* takes the factory whole and ends the round.
LastFactory(moves_before) ==
    {s \in {GenState(m, rows, Wall_new, other,
                     [factories |-> <<TS(0, 0, 4, 0, 0)>>, center |-> TileSet_new],
                     [t \in Tile |-> GenTray]) :
              m \in {moves_before, moves_before + 1}, rows \in SearchRows, other \in GenOther} :
       GenWellFormed(s)}

InitRounds ==
    /\ state \in SearchStates(GenMoves) \cup FinishedStates(GenMoves)
                   \cup Endgames(GenMoves) \cup LastFactory(GenMoves)
    /\ pc = "position"
    /\ panic = "none"
    /\ call = [before |-> state, index |-> 0, start |-> state]

\* let children = state.children(rng); state = children[index], for any
\* index.
Successor ==
    /\ AtPosition
    /\ state.moves < call.start.moves + MaxRoundMoves
    /\ \E rng \in Rngs : \E c \in {children(state, rng)} :
         IF c.panic # "none" \/ c.children = <<>>
         THEN /\ state' = state
              /\ panic' = IF c.panic # "none" THEN c.panic ELSE "no_move"
              /\ pc' = "aborted"
              /\ call' = [before |-> state, index |-> 0, start |-> call.start]
         ELSE \E k \in 1..Len(c.children) :
              /\ state' = c.children[k].state
              /\ panic' = "none"
              /\ pc' = "play"
              /\ call' = [before |-> state, index |-> k, child |-> c.children[k],
                          start |-> call.start]

SpecRounds == InitRounds /\ [][Successor]_vars

(***************************************************************************)
(* Properties of the successors (specification SpecRounds).                *)
(***************************************************************************)
\* Tiles of one colour in s: the bag, the factories, the center, the tray,
\* the staging rows and discards of the players, and the occupied wall
\* cells whose colour in the WALL table is that colour.
ColourCount(s, tile) == s.bag[tile] + outside_bag(s, tile)

\* C36: in every reachable state, for each of the five colours, the tiles
\* of that colour in bag, factories, center, tray, the players' staging
\* rows and discards and the occupied wall cells of that layout colour
\* number 20.
C36_ColourConservation ==
    \A t \in Tile : ColourCount(state, t) = TilesPerColour

\* A move ended the round: a full row went to the wall, discards went to
\* the tray and five factories were dealt.
C36_Witness ==
    /\ pc = "play"
    /\ CallCrossed
    /\ \E p \in PlayerIdx(state) :
          Wall_len(state.players[p].wall) > Wall_len(call.before.players[p].wall)
    /\ \E t \in Tile : state.tray[t] > call.before.tray[t]
    /\ Len(state.factories) = NumFactories
    /\ \A t \in Tile : ColourCount(state, t) = TilesPerColour

\* C37: in every state after the initial deal the factory list has at most
\* five entries and every factory in it holds exactly four tiles; the list
\* is empty whenever a re-deal starts, and the re-deal yields exactly five
\* factories.
C37_FactoryShape ==
    /\ Len(state.factories) <= NumFactories
    /\ \A k \in 1..Len(state.factories) : TileSet_len(state.factories[k]) = FactorySize
    /\ (pc = "play" /\ CallCrossed) =>
          /\ call.child.staged.factories = <<>>
          /\ Len(state.factories) = NumFactories

\* A pick from a factory left the other factories in the list, and a pick
\* from the last factory, emptying the offer, started the re-deal.
C37_Witness ==
    /\ pc = "play"
    /\ CallCrossed
    /\ call.child.origin # Center
    /\ Len(call.before.factories) = 1
    /\ Len(state.factories) = NumFactories
    /\ \A k \in 1..NumFactories : TileSet_len(state.factories[k]) = FactorySize

\* The factories of the parent but for the origin of the pick.
OtherFactories(factories, origin) ==
    IF origin = Center THEN factories ELSE remove(factories, origin)

\* C38: in every child that does not cross a round boundary the bag, the
\* tray, every player other than the mover and the mover's wall and points
\* are the parent's; only the mover's chosen staging row and discard, the
\* picked origin and the center change.  Points and walls of any player
\* change only in transitions that cross a round boundary.
C38_DraftingFrame ==
    (pc = "play" /\ call.index > 0) =>
      /\ ~CallCrossed =>
           /\ state.bag = call.before.bag
           /\ state.tray = call.before.tray
           /\ \A p \in PlayerIdx(state) \ {Mover} : state.players[p] = call.before.players[p]
           /\ state.players[Mover].wall = call.before.players[Mover].wall
           /\ state.players[Mover].points = call.before.players[Mover].points
           /\ \A i \in Idx \ {call.child.row} :
                 state.players[Mover].rows[i] = call.before.players[Mover].rows[i]
           /\ \A t \in Tile \ {call.child.tile} :
                 state.players[Mover].discard[t] = call.before.players[Mover].discard[t]
           /\ state.factories = OtherFactories(call.before.factories, call.child.origin)
      /\ (\E p \in PlayerIdx(state) :
             \/ state.players[p].wall # call.before.players[p].wall
             \/ state.players[p].points # call.before.players[p].points)
           => CallCrossed

\* A pick from a factory into a row with a full row waiting beside it: the
\* round goes on and the full row stays where it is.
C38_Witness ==
    /\ pc = "play"
    /\ call.index > 0
    /\ ~CallCrossed
    /\ call.child.origin # Center
    /\ \E i \in Idx \ {call.child.row} :
          /\ state.players[Mover].rows[i] # None
          /\ state.players[Mover].rows[i][2] = i + 1
    /\ state.players[Mover].rows[call.child.row] # call.before.players[Mover].rows[call.child.row]
    /\ state.center # call.before.center

\* Every wall cell occupied in a is occupied in b.
WallsKept(a, b) ==
    \A p \in PlayerIdx(a) : \A y \in Idx : \A x \in Idx :
       a.players[p].wall.rows[y][x] => b.players[p].wall.rows[y][x]

\* children gives a finished game successors as it does any other state.
FinishedHasChildren ==
    (AtPosition /\ winner(state) # None) =>
       \A rng \in Rngs : \A c \in {children(state, rng)} :
          c.panic = "none" /\ c.children # <<>>

\* C39: wall cells only ever change from empty to occupied, so once
\* winner() is defined in a state it is defined in every state reachable
\* from it; children() still generates successors of a game-over state.
C39_GameOverStable ==
    /\ []FinishedHasChildren
    /\ [][/\ WallsKept(state, state')
          /\ winner(state) # None => winner(state') # None]_vars

\* A successor of a finished game was taken, and the game is still over
\* with the same walls.
C39_Witness ==
    /\ pc = "play"
    /\ call.index > 0
    /\ winner(call.before) # None
    /\ winner(state) # None
    /\ state # call.before
    /\ WallsKept(call.before, state)

(***************************************************************************)
(* Move detection (src/src/azul/move_detection.rs): describe_move reads    *)
(* the move off a pair of states.  A Result is [ok |-> TRUE, ...] for Ok   *)
(* and [ok |-> FALSE, err |-> e] for Err(MoveError::e); an origin is a     *)
(* factory index or Center, a destination a row index or Discard.          *)
(***************************************************************************)
Err(e) == [ok |-> FALSE, err |-> e]

Discard == -1

\* row_count
row_count(row) == IF row = None THEN 0 ELSE row[2]

\* row_space_left
row_space_left(row_index, row) == saturating_sub(row_index + 1, row_count(row))

\* row_is_legal
row_is_legal(player, row_index, tile) ==
    IF has_tile(player.wall, row_index, tile)
    THEN FALSE
    ELSE IF player.rows[row_index] = None
    THEN TRUE
    ELSE player.rows[row_index][1] = tile

\* collect_legal_rows, as the set of the rows collected (ascending in the
\* source).
collect_legal_rows(player, tile) ==
    {row_index \in Idx : row_is_legal(player, row_index, tile)}

\* detect_target_row, the test `changed` of one row.
row_changed(before_player, after_player, row_index, scoring) ==
    LET before_row == before_player.rows[row_index]
        after_row == after_player.rows[row_index]
    IN IF scoring
       THEN /\ row_count(before_row) # row_index + 1
            /\ (after_row = None \/ row_count(after_row) > row_count(before_row))
       ELSE before_row # after_row

\* detect_target_row: [ok, row] with row None or <<row_index>>; the second
\* changed row the loop meets makes it return AmbiguousTransition.
detect_target_row(before_player, after_player, tile, scoring) ==
    LET candidates == {row_index \in Idx :
                         /\ row_is_legal(before_player, row_index, tile)
                         /\ row_changed(before_player, after_player, row_index, scoring)}
    IN IF Cardinality(candidates) > 1
       THEN Err("AmbiguousTransition")
       ELSE [ok |-> TRUE,
             row |-> IF candidates = {} THEN None ELSE <<CHOOSE r \in candidates : TRUE>>]

\* detect_origin, the loop `for tile in TILES` of the changed factory:
\* chosen is None or <<tile, count>>.
RECURSIVE factory_choice(_, _, _, _, _, _)
factory_choice(before, after, factory_index, before_factory, chosen, k) ==
    IF k > Len(TILES)
    THEN IF chosen # None
         THEN [ok |-> TRUE, origin |-> factory_index, tile |-> chosen[1], count |-> chosen[2]]
         ELSE Err("IllegalTransition")
    ELSE LET tile == TILES[k]
             factory_count == before_factory[tile]
             center_diff == after.center[tile] - before.center[tile]
         IN IF factory_count = 0
            THEN factory_choice(before, after, factory_index, before_factory, chosen, k + 1)
            ELSE IF center_diff = 0
            THEN IF chosen # None
                 THEN Err("AmbiguousTransition")
                 ELSE factory_choice(before, after, factory_index, before_factory,
                                     <<tile, factory_count>>, k + 1)
            ELSE IF center_diff # factory_count
            THEN Err("IllegalTransition")
            ELSE factory_choice(before, after, factory_index, before_factory, chosen, k + 1)

\* detect_origin, the loop `for tile in TILES` over the center.
RECURSIVE center_choice(_, _, _, _)
center_choice(before, after, chosen, k) ==
    IF k > Len(TILES)
    THEN IF chosen # None
         THEN [ok |-> TRUE, origin |-> Center, tile |-> chosen[1], count |-> chosen[2]]
         ELSE Err("IllegalTransition")
    ELSE LET tile == TILES[k]
             diff == before.center[tile] - after.center[tile]
         IN IF diff = 0
            THEN center_choice(before, after, chosen, k + 1)
            ELSE IF diff <= 0
            THEN Err("IllegalTransition")
            ELSE IF chosen # None
            THEN Err("AmbiguousTransition")
            ELSE center_choice(before, after, <<tile, diff>>, k + 1)

\* detect_origin: [ok, origin, tile, count].
detect_origin(before, after) ==
    IF Len(before.factories) # Len(after.factories)
    THEN Err("IllegalTransition")
    ELSE LET changed == {k \in 1..Len(before.factories) :
                           before.factories[k] # after.factories[k]}
         IN IF Cardinality(changed) > 1
            THEN Err("AmbiguousTransition")
            ELSE IF changed # {}
            THEN LET factory_index == (CHOOSE k \in changed : TRUE) - 1
                 IN IF TileSet_len(after.factories[factory_index + 1]) # 0
                    THEN Err("IllegalTransition")
                    ELSE factory_choice(before, after, factory_index,
                                        before.factories[factory_index + 1], None, 1)
            ELSE center_choice(before, after, None, 1)

\* determine_destination, the branch of a target row.
row_destination(player_before, player_after, row_index, tile, n, scoring, legal_rows) ==
    IF ~row_is_legal(player_before, row_index, tile)
    THEN Err("IllegalTransition")
    ELSE LET before_row == player_before.rows[row_index]
             before_count == row_count(before_row)
             space_left == row_space_left(row_index, before_row)
             placed == IF n <= space_left THEN n ELSE space_left
             discarded == n - placed
             after_count == row_count(player_after.rows[row_index])
         IN IF placed = 0 /\ space_left = 0 /\ Cardinality(legal_rows) > 1
            THEN Err("AmbiguousTransition")
            ELSE IF placed = space_left /\ space_left > 0 /\ scoring
                    /\ player_after.rows[row_index] # None
            THEN Err("IllegalTransition")
            ELSE IF ~(placed = space_left /\ space_left > 0 /\ scoring)
                    /\ after_count # before_count + placed
            THEN Err("IllegalTransition")
            ELSE IF ~scoring
                    /\ player_after.discard[tile] - player_before.discard[tile] # discarded
            THEN Err("IllegalTransition")
            ELSE [ok |-> TRUE, destination |-> row_index,
                  placed |-> placed, discarded |-> discarded]

\* determine_destination: [ok, destination, placed, discarded].
determine_destination(before, after, player_index, tile, n) ==
    LET player_before == before.players[player_index]
        player_after == after.players[player_index]
        scoring == is_empty(after)
        legal_rows == collect_legal_rows(player_before, tile)
        detected == detect_target_row(player_before, player_after, tile, scoring)
    IN IF ~detected.ok
       THEN detected
       ELSE LET target_row == IF detected.row = None /\ Cardinality(legal_rows) = 1
                              THEN <<CHOOSE r \in legal_rows : TRUE>>
                              ELSE detected.row
            IN IF target_row # None
               THEN row_destination(player_before, player_after, target_row[1], tile, n,
                                    scoring, legal_rows)
               ELSE IF legal_rows # {}
               THEN Err("AmbiguousTransition")
               ELSE IF ~scoring
                       /\ player_after.discard[tile] - player_before.discard[tile] # n
               THEN Err("IllegalTransition")
               ELSE [ok |-> TRUE, destination |-> Discard, placed |-> 0, discarded |-> n]

\* describe_move
describe_move(before, after) ==
    IF is_empty(before)
    THEN Err("StochasticPhase")
    ELSE IF Cardinality(PlayerIdx(before)) # Cardinality(PlayerIdx(after))
    THEN Err("IllegalTransition")
    ELSE IF after.moves # before.moves + 1
    THEN Err("IllegalTransition")
    ELSE Bind(detect_origin(before, after), LAMBDA o :
           IF ~o.ok
           THEN o
           ELSE Bind(determine_destination(before, after, current_player(before),
                                           o.tile, o.count),
                     LAMBDA d :
                       IF ~d.ok
                       THEN d
                       ELSE [ok |-> TRUE,
                             player_index |-> current_player(before),
                             origin |-> o.origin,
                             tile |-> o.tile,
                             count |-> o.count,
                             destination |-> d.destination,
                             placed |-> d.placed,
                             discarded |-> d.discarded]))

(***************************************************************************)
(* describe_move applied to pairs of states: a position (or the new game,  *)
(* which has no tiles on offer) and one of its successors, or a state that *)
(* is no successor of it.                                                  *)
(***************************************************************************)
InitDescribe ==
    /\ state \in SearchStates(GenMoves) \cup FinishedStates(GenMoves)
                   \cup Endgames(GenMoves) \cup LastFactory(GenMoves)
                   \cup {State_new(NumPlayers)}
    /\ pc = "position"
    /\ panic = "none"
    /\ call = NoCall

\* States that are no successors of s: s itself, s two moves on, and s one
\* move on without its last player.
Others(s) ==
    {s,
     [s EXCEPT !.moves = @ + 2],
     [s EXCEPT !.moves = @ + 1,
               !.players = [p \in 0..(Cardinality(PlayerIdx(s)) - 2) |-> s.players[p]]]}

\* describe_move(&state, &child) for a child of state.children(rng)
DescribeChild ==
    /\ pc = "position"
    /\ \E rng \in Rngs : \E c \in {children(state, rng)} :
         /\ c.panic = "none"
         /\ \E k \in 1..Len(c.children) :
              /\ state' = c.children[k].state
              /\ panic' = "none"
              /\ pc' = "described"
              /\ call' = [before |-> state, index |-> k, child |-> c.children[k],
                          described |-> describe_move(state, c.children[k].state)]

\* describe_move(&state, &other) for a state that is no child
DescribeOther ==
    /\ pc = "position"
    /\ \E other \in Others(state) :
         /\ state' = other
         /\ panic' = "none"
         /\ pc' = "described"
         /\ call' = [before |-> state, index |-> 0,
                     described |-> describe_move(state, other)]

NextDescribe == DescribeChild \/ DescribeOther

SpecDescribe == InitDescribe /\ [][NextDescribe]_vars

(***************************************************************************)
(* Properties of move detection (specification SpecDescribe).              *)
(***************************************************************************)
\* The space left in row row_index of the player, read off the row.
SpaceLeft(player, row_index) ==
    row_index + 1 - (IF player.rows[row_index] = None THEN 0 ELSE player.rows[row_index][2])

\* The description names the pick and the placement of the recorded child.
Recovers(d, before, child) ==
    /\ d.ok
    /\ d.player_index = before.moves % Cardinality(PlayerIdx(before))
    /\ d.origin = child.origin
    /\ d.tile = child.tile
    /\ d.count = child.count
    /\ d.placed + d.discarded = child.count
    /\ ~child.forced =>
          d.placed = Min(child.count, SpaceLeft(before.players[d.player_index], child.row))

\* C40: for every state with tiles on offer and every successor produced
\* from it by one drafting action that does not cross a round boundary,
\* describe_move returns Ok with the player to move, the origin, colour
\* and count of the pick, placed + discarded = count and placed the
\* smaller of count and the space left in the target row; it returns
\* Err(StochasticPhase) when the first state has no tiles in factories and
\* center, and Err(IllegalTransition) when the move counter is not one
\* more or the player counts differ.
C40_DescribeMove ==
    pc = "described" =>
      /\ (call.index > 0 /\ ~is_empty(call.child.staged))
           => Recovers(call.described, call.before, call.child)
      /\ ~TilesOnOffer(call.before) => call.described = Err("StochasticPhase")
      /\ (/\ TilesOnOffer(call.before)
          /\ \/ state.moves # call.before.moves + 1
             \/ Cardinality(PlayerIdx(state)) # Cardinality(PlayerIdx(call.before)))
           => call.described = Err("IllegalTransition")

=============================================================================
